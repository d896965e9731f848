--------------------------- MODULE MCProfileStore ---------------------------
(* Two slugs, the first with two spellings of its name, and a name that    *)
(* slugifies to nothing; two verified bundles and one that does not verify. *)
EXTENDS ProfileStore

MCSlugs == {"a", "b"}
MCNames == {"A", "a!", "B", "--"}
MCSlugOf == [n \in MCNames |-> CASE n \in {"A", "a!"} -> "a" [] n = "B" -> "b"
                                 [] n = "--" -> None]
MCBundles == {"b1", "b2", "forged"}
MCTrusted == {"b1", "b2"}
=============================================================================

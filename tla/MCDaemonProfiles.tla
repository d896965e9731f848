-------------------------- MODULE MCDaemonProfiles --------------------------
(* Two slugs, each the slug of one name; two verified bundles and a forged *)
(* one; a legacy bundle to migrate.                                        *)
EXTENDS DaemonProfiles

MCNames == {"default", "b"}
MCSlugOf == [n \in MCNames |-> n]

\* The keys SetRosenpass and the operator's editor write are not combined with a second
\* profile; a profile that a store operation cut short has torn is not combined with
\* another, with --mode or with an edit.
Focus ==
    /\ \/ catalog["b"].bundle = None /\ catalog["b"].meta = None
       \/ /\ edits = 0 /\ override = None
          /\ \A s \in Slugs : Installed(s) => catalog[s].meta.rosenpass = None
    /\ torn # {} => torn # Slugs /\ flag = None /\ edits = 0
=============================================================================

--------------------------- MODULE ProfileCatalog ---------------------------
(***************************************************************************)
(* What the profile store (internal/profile) promises its callers: a       *)
(* catalogue of profiles and one active marker, changed by whole           *)
(* operations.  Add, Remove, Rename, SetActive, UpdateMode and             *)
(* UpdateRosenpass are single steps here; ProfileStore.tla performs them   *)
(* file by file.  The Abort actions say what a failed write or a crash in  *)
(* the middle of an operation may leave behind, and nothing else.          *)
(*                                                                         *)
(* Data: a bundle is an opaque value (its bytes), a name is an opaque      *)
(* value with a slug, timestamps are left out.                             *)
(***************************************************************************)
CONSTANTS
    Slugs,      \* on-disk file stems
    Names,      \* names a user may type
    SlugOf,     \* Slugify: a name's slug, None when the name is invalid
    Bundles,    \* bundle byte strings
    Trusted,    \* the ones that parse and verify against the trust roots
    Modes,      \* valid modes of a profile
    Intents,    \* explicit Rosenpass overrides
    None

(* What <slug>.meta.json holds. *)
Meta == [name: Names, mode: Modes, rosenpass: Intents \cup {None}]

(* The two files of a slug; either may be absent. *)
Entry == [bundle: Bundles \cup {None}, meta: Meta \cup {None}]

ASSUME CatalogAssumption ==
    /\ SlugOf \in [Names -> Slugs \cup {None}]
    /\ Trusted \subseteq Bundles
    /\ None \notin Slugs /\ None \notin Bundles /\ None \notin Names
    /\ None \notin Modes /\ None \notin Intents /\ None \notin Meta

VARIABLES
    catalog,    \* slug -> Entry
    active      \* the slug active.json names, or None

cvars == <<catalog, active>>

Absent == [bundle |-> None, meta |-> None]

Installed(s) == catalog[s].meta # None

Loadable(s) == catalog[s].meta # None /\ catalog[s].bundle # None

(* The meta a fresh Add writes: name and mode of the request, no override. *)
FreshMeta(n, m) == [name |-> n, mode |-> m, rosenpass |-> None]

CInit ==
    /\ catalog = [s \in Slugs |-> Absent]
    /\ active = None

-----------------------------------------------------------------------------
(* Whole operations. *)

(* Signed by a trust root. *)
Signed(b) == b \in Trusted

CanAdd_Unverified(n, b, replace) ==
    SlugOf[n] # None /\ (replace \/ ~Installed(SlugOf[n]))

CanAdd(n, b, replace) ==
    /\ SlugOf[n] # None
    /\ Signed(b)
    /\ replace \/ ~Installed(SlugOf[n])

Add(n, m, b, replace) ==
    /\ CanAdd(n, b, replace)
    /\ catalog' = [catalog EXCEPT
                     ![SlugOf[n]] = [bundle |-> b, meta |-> FreshMeta(n, m)]]
    /\ UNCHANGED active

Remove_KeepsMarker(s) ==
    /\ Installed(s)
    /\ catalog' = [catalog EXCEPT ![s] = Absent]
    /\ UNCHANGED active

Remove(s) ==
    /\ Installed(s)
    /\ catalog' = [catalog EXCEPT ![s] = Absent]
    /\ active' = IF active = s THEN None ELSE active

CanRename(s, n) ==
    /\ SlugOf[n] \notin {s, None}
    /\ Loadable(s)
    /\ ~Installed(SlugOf[n])

Rename(s, n) ==
    /\ CanRename(s, n)
    /\ catalog' = [catalog EXCEPT
                     ![SlugOf[n]] = [catalog[s] EXCEPT !.meta.name = n],
                     ![s] = Absent]
    /\ active' = IF active = s THEN SlugOf[n] ELSE active

(* A new display name with the same slug edits the meta in place. *)
RenameInPlace(s, n) ==
    /\ SlugOf[n] = s
    /\ Installed(s)
    /\ catalog' = [catalog EXCEPT ![s].meta.name = n]
    /\ UNCHANGED active

SetActive(s) ==
    /\ s # None => Installed(s)
    /\ active' = s
    /\ UNCHANGED catalog

UpdateMode(s, m) ==
    /\ Installed(s)
    /\ catalog' = [catalog EXCEPT ![s].meta.mode = m]
    /\ UNCHANGED active

UpdateRosenpass(s, i) ==
    /\ Installed(s)
    /\ catalog' = [catalog EXCEPT ![s].meta.rosenpass = i]
    /\ UNCHANGED active

-----------------------------------------------------------------------------
(* What an operation may leave behind when one of its writes fails or the  *)
(* process dies inside it: only the slugs it works on are touched, and a   *)
(* rename never loses the profile.  Rename ignores a failure to delete the *)
(* old files, so its leftovers may come with the marker moved or not.      *)

AbortAdd(n, b, replace) ==
    /\ CanAdd(n, b, replace)
    /\ \E left \in {b, None} :
         catalog' = [catalog EXCEPT ![SlugOf[n]].bundle = left]
    /\ UNCHANGED active

AbortRemove(s) ==
    /\ Installed(s)
    /\ \E left \in {catalog[s].bundle, None} :
         catalog' = [catalog EXCEPT ![s] = [bundle |-> left, meta |-> None]]
    /\ UNCHANGED active

AbortRename(s, n) ==
    /\ CanRename(s, n)
    /\ \/ /\ \E left \in {catalog[s].bundle, None} :
              catalog' = [catalog EXCEPT ![SlugOf[n]].bundle = left]
          /\ UNCHANGED active
       \/ /\ \E oldBundle \in {catalog[s].bundle, None},
                oldMeta \in {catalog[s].meta, None} :
              catalog' = [catalog EXCEPT
                            ![SlugOf[n]] = [catalog[s] EXCEPT !.meta.name = n],
                            ![s] = [bundle |-> oldBundle, meta |-> oldMeta]]
          /\ active' \in {active, IF active = s THEN SlugOf[n] ELSE active}

CWhole ==
    \/ \E n \in Names, m \in Modes, b \in Bundles, r \in BOOLEAN : Add(n, m, b, r)
    \/ \E s \in Slugs : Remove(s)
    \/ \E s \in Slugs, n \in Names : Rename(s, n) \/ RenameInPlace(s, n)
    \/ \E s \in Slugs \cup {None} : SetActive(s)
    \/ \E s \in Slugs, m \in Modes : UpdateMode(s, m)
    \/ \E s \in Slugs, i \in Intents \cup {None} : UpdateRosenpass(s, i)

CCutShort ==
    \/ \E n \in Names, b \in Bundles, r \in BOOLEAN : AbortAdd(n, b, r)
    \/ \E s \in Slugs : AbortRemove(s)
    \/ \E s \in Slugs, n \in Names : AbortRename(s, n)

CNext == CWhole \/ CCutShort

CSpec == CInit /\ [][CNext]_cvars

=============================================================================

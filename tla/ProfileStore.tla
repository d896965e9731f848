---------------------------- MODULE ProfileStore ----------------------------
(***************************************************************************)
(* internal/profile/profile.go file by file.  Every mutating method holds  *)
(* the store's write lock from its first check to its return, so at most   *)
(* one operation is in progress (step # "idle") and readers never see its  *)
(* middle; a crash does.  Each writeAtomic (temp + fsync + rename) and     *)
(* each os.Remove is one step, which takes effect or fails without effect. *)
(* The checks an operation makes under the lock and its first write are    *)
(* one step: a failed check, or a failed first write, changes nothing.     *)
(***************************************************************************)
EXTENDS FiniteSets

CONSTANTS
    Slugs, Names, SlugOf, Bundles, Trusted, Modes, Intents, None,
    Faults      \* what may go wrong: a subset of {"crash", "io"}

Meta == [name: Names, mode: Modes, rosenpass: Intents \cup {None}]

ASSUME StoreAssumption ==
    /\ SlugOf \in [Names -> Slugs \cup {None}]
    /\ Trusted \subseteq Bundles
    /\ None \notin Slugs /\ None \notin Bundles /\ None \notin Names
    /\ None \notin Modes /\ None \notin Intents /\ None \notin Meta
    /\ Faults \subseteq {"crash", "io"}

VARIABLES
    bundleFile,     \* slug -> contents of <slug>.cbor, None when absent
    metaFile,       \* slug -> contents of <slug>.meta.json, None when absent
    activeFile,     \* the slug active.json names, None when absent or empty
    step,           \* where the operation holding the write lock stands
    req,            \* that operation's arguments
    before,         \* history: the files when the operation in progress began,
                    \* the files themselves when there is none
    faulted         \* history: a crash or a failed write has happened

vars == <<bundleFile, metaFile, activeFile, step, req, before, faulted>>

Steps == {"idle", "addMeta", "addRollback", "removeBundle", "removeActive",
          "renameMeta", "renameRollback", "renameOldBundle", "renameOldMeta",
          "renameActive"}

RenameSteps == {"renameMeta", "renameRollback", "renameOldBundle",
                "renameOldMeta", "renameActive"}

NoReq == [slug |-> None, old |-> None, meta |-> None, bundle |-> None,
          replace |-> FALSE]

(* Whether a write may succeed, and whether it may fail. *)
IoOutcome == IF "io" \in Faults THEN BOOLEAN ELSE {TRUE}

Installed(s) == metaFile[s] # None

Files == [bundle |-> bundleFile, meta |-> metaFile, active |-> activeFile]

Init ==
    /\ bundleFile = [s \in Slugs |-> None]
    /\ metaFile = [s \in Slugs |-> None]
    /\ activeFile = None
    /\ step = "idle"
    /\ req = NoReq
    /\ before = Files
    /\ faulted = FALSE

-----------------------------------------------------------------------------
(* Taking the lock, going on to the next write, and returning. *)

Begin(next, r) ==
    /\ step = "idle"
    /\ step' = next
    /\ req' = r
    /\ UNCHANGED <<before, faulted>>

Continue(to) ==
    /\ step' = to
    /\ req' = IF to = "idle" THEN NoReq ELSE req
    /\ before' = IF to = "idle" THEN Files' ELSE before

(* An operation that is one write: it happens, or nothing does. *)
Single ==
    /\ step = "idle"
    /\ before' = Files'
    /\ UNCHANGED <<step, req, faulted>>

-----------------------------------------------------------------------------
(* The conditions and the file copies of the operations. The definitions   *)
(* with a suffix are the mistakes the runs are shown to catch.             *)

Verified_Skipped(b) == TRUE
Verified(b) == b \in Trusted           \* parses, signed by a trust root, keypair matches

TargetFree_Unchecked(t) == TRUE
TargetFree(t) == ~Installed(t)

Copied_Moved(s, t) == [bundleFile EXCEPT ![t] = bundleFile[s], ![s] = None]
Copied(s, t) == [bundleFile EXCEPT ![t] = bundleFile[s]]

MarkerNames_Never(s) == FALSE
MarkerNames_Always(s) == TRUE
MarkerNames(s) == activeFile = s

WithMode(s, m) == [metaFile EXCEPT ![s].mode = m]

-----------------------------------------------------------------------------
(* Add: verify, refuse a taken slug unless Replace, write the bundle, write *)
(* a fresh meta, and delete the bundle again when the meta write fails.    *)

AddWriteBundle(n, m, b, replace) ==
    LET s == SlugOf[n] IN
    /\ s # None
    /\ Verified(b)
    /\ replace \/ TargetFree(s)
    /\ Begin("addMeta",
             [slug |-> s, old |-> None, bundle |-> b, replace |-> replace,
              meta |-> [name |-> n, mode |-> m, rosenpass |-> None]])
    /\ bundleFile' = [bundleFile EXCEPT ![s] = b]
    /\ UNCHANGED <<metaFile, activeFile>>

AddWriteMeta(ok) ==
    /\ step = "addMeta"
    /\ metaFile' = IF ok THEN [metaFile EXCEPT ![req.slug] = req.meta] ELSE metaFile
    /\ faulted' = (faulted \/ ~ok)
    /\ UNCHANGED <<bundleFile, activeFile>>
    /\ Continue(IF ok THEN "idle" ELSE "addRollback")

AddRollback(ok) ==
    /\ step = "addRollback"
    /\ bundleFile' = IF ok THEN [bundleFile EXCEPT ![req.slug] = None] ELSE bundleFile
    /\ UNCHANGED <<metaFile, activeFile, faulted>>
    /\ Continue("idle")

-----------------------------------------------------------------------------
(* Remove: the meta first, then the bundle, then the marker if it named    *)
(* the slug when the operation began.                                      *)

RemoveMeta(s) ==
    /\ Installed(s)
    /\ Begin("removeBundle", [NoReq EXCEPT !.slug = s])
    /\ metaFile' = [metaFile EXCEPT ![s] = None]
    /\ UNCHANGED <<bundleFile, activeFile>>

RemoveBundle(ok) ==
    /\ step = "removeBundle"
    /\ bundleFile' = IF ok THEN [bundleFile EXCEPT ![req.slug] = None] ELSE bundleFile
    /\ faulted' = (faulted \/ ~ok)
    /\ UNCHANGED <<metaFile, activeFile>>
    /\ Continue(IF ok /\ MarkerNames(req.slug) THEN "removeActive" ELSE "idle")

RemoveActive(ok) ==
    /\ step = "removeActive"
    /\ activeFile' = IF ok THEN None ELSE activeFile
    /\ faulted' = (faulted \/ ~ok)
    /\ UNCHANGED <<bundleFile, metaFile>>
    /\ Continue("idle")

-----------------------------------------------------------------------------
(* Rename to another slug: new bundle, new meta, delete the old bundle and *)
(* the old meta (failures ignored), then move the marker.                  *)

RenameWriteBundle(s, n) ==
    LET t == SlugOf[n] IN
    /\ t \notin {s, None}
    /\ TargetFree(t)
    /\ Installed(s)
    /\ bundleFile[s] # None
    /\ Begin("renameMeta",
             [slug |-> t, old |-> s, bundle |-> bundleFile[s], replace |-> FALSE,
              meta |-> [metaFile[s] EXCEPT !.name = n]])
    /\ bundleFile' = Copied(s, t)
    /\ UNCHANGED <<metaFile, activeFile>>

RenameWriteMeta_KeepsOld(ok) ==
    /\ step = "renameMeta"
    /\ metaFile' = IF ok THEN [metaFile EXCEPT ![req.slug] = req.meta] ELSE metaFile
    /\ faulted' = (faulted \/ ~ok)
    /\ UNCHANGED <<bundleFile, activeFile>>
    /\ Continue(IF ok THEN "idle" ELSE "renameRollback")

RenameWriteMeta(ok) ==
    /\ step = "renameMeta"
    /\ metaFile' = IF ok THEN [metaFile EXCEPT ![req.slug] = req.meta] ELSE metaFile
    /\ faulted' = (faulted \/ ~ok)
    /\ UNCHANGED <<bundleFile, activeFile>>
    /\ Continue(IF ok THEN "renameOldBundle" ELSE "renameRollback")

RenameRollback(ok) ==
    /\ step = "renameRollback"
    /\ bundleFile' = IF ok THEN [bundleFile EXCEPT ![req.slug] = None] ELSE bundleFile
    /\ UNCHANGED <<metaFile, activeFile, faulted>>
    /\ Continue("idle")

RenameOldBundle(ok) ==
    /\ step = "renameOldBundle"
    /\ bundleFile' = IF ok THEN [bundleFile EXCEPT ![req.old] = None] ELSE bundleFile
    /\ faulted' = (faulted \/ ~ok)
    /\ UNCHANGED <<metaFile, activeFile>>
    /\ Continue("renameOldMeta")

RenameOldMeta(ok) ==
    /\ step = "renameOldMeta"
    /\ metaFile' = IF ok THEN [metaFile EXCEPT ![req.old] = None] ELSE metaFile
    /\ faulted' = (faulted \/ ~ok)
    /\ UNCHANGED <<bundleFile, activeFile>>
    /\ Continue(IF MarkerNames(req.old) THEN "renameActive" ELSE "idle")

RenameActive(ok) ==
    /\ step = "renameActive"
    /\ activeFile' = IF ok THEN req.slug ELSE activeFile
    /\ faulted' = (faulted \/ ~ok)
    /\ UNCHANGED <<bundleFile, metaFile>>
    /\ Continue("idle")

-----------------------------------------------------------------------------
(* The single-write operations. *)

RenameInPlace(s, n) ==
    /\ SlugOf[n] = s
    /\ Installed(s)
    /\ metaFile' = [metaFile EXCEPT ![s].name = n]
    /\ UNCHANGED <<bundleFile, activeFile>>
    /\ Single

SetActive(s) ==
    /\ s # None => Installed(s)
    /\ activeFile' = s
    /\ UNCHANGED <<bundleFile, metaFile>>
    /\ Single

UpdateMode(s, m) ==
    /\ Installed(s)
    /\ metaFile' = WithMode(s, m)
    /\ UNCHANGED <<bundleFile, activeFile>>
    /\ Single

UpdateRosenpass(s, i) ==
    /\ Installed(s)
    /\ metaFile' = [metaFile EXCEPT ![s].rosenpass = i]
    /\ UNCHANGED <<bundleFile, activeFile>>
    /\ Single

(* The process dies inside an operation: the files stay as they are. *)
Crash ==
    /\ "crash" \in Faults
    /\ step # "idle"
    /\ step' = "idle"
    /\ req' = NoReq
    /\ before' = Files
    /\ faulted' = TRUE
    /\ UNCHANGED <<bundleFile, metaFile, activeFile>>

-----------------------------------------------------------------------------
Next ==
    \/ \E n \in Names, m \in Modes, b \in Bundles, r \in BOOLEAN :
         AddWriteBundle(n, m, b, r)
    \/ \E s \in Slugs : RemoveMeta(s)
    \/ \E s \in Slugs, n \in Names : RenameWriteBundle(s, n)
    \/ \E s \in Slugs, n \in Names : RenameInPlace(s, n)
    \/ \E s \in Slugs \cup {None} : SetActive(s)
    \/ \E s \in Slugs, m \in Modes : UpdateMode(s, m)
    \/ \E s \in Slugs, i \in Intents \cup {None} : UpdateRosenpass(s, i)
    \/ \E ok \in IoOutcome :
         \/ AddWriteMeta(ok)
         \/ AddRollback(ok)
         \/ RemoveBundle(ok)
         \/ RemoveActive(ok)
         \/ RenameWriteMeta(ok)
         \/ RenameRollback(ok)
         \/ RenameOldBundle(ok)
         \/ RenameOldMeta(ok)
         \/ RenameActive(ok)
    \/ Crash

Spec == Init /\ [][Next]_vars

-----------------------------------------------------------------------------
Request == [slug: Slugs \cup {None}, old: Slugs \cup {None}, meta: Meta \cup {None},
            bundle: Bundles \cup {None}, replace: BOOLEAN]

(* The types of the files and of the operation in progress. *)
TypeOK ==
    /\ bundleFile \in [Slugs -> Bundles \cup {None}]
    /\ metaFile \in [Slugs -> Meta \cup {None}]
    /\ activeFile \in Slugs \cup {None}
    /\ step \in Steps
    /\ req \in Request
    /\ before \in [bundle: [Slugs -> Bundles \cup {None}],
                   meta: [Slugs -> Meta \cup {None}],
                   active: Slugs \cup {None}]
    /\ faulted \in BOOLEAN

(* Load hands bundles out without checking their signature again ("we      *)
(* trust on-disk bundles"): whatever was interrupted or failed, and by     *)
(* whichever operation the file was written, no .cbor on disk holds bytes  *)
(* that did not verify.                                                    *)
OnlyVerifiedOnDisk ==
    \A s \in Slugs : bundleFile[s] # None => bundleFile[s] \in Trusted

(* Rename writes the new files before it deletes the old ones ("Bundle     *)
(* bytes survive intact"): at every instant, so after a crash at any of    *)
(* them too, one of the two slugs has both its files, with these bytes.    *)
RenameKeepsProfile ==
    step \in RenameSteps =>
        \E s \in {req.old, req.slug} : Installed(s) /\ bundleFile[s] = req.bundle

(* Until a write fails or the process dies inside an operation, the files  *)
(* are consistent whenever the lock is free: the bundle and the meta of a  *)
(* slug exist together, and the marker names an existing profile.          *)
ConsistentUntilFault ==
    (~faulted /\ step = "idle") =>
        /\ \A s \in Slugs : Installed(s) <=> bundleFile[s] # None
        /\ activeFile # None => Installed(activeFile)

(* Clobber resistance, on the files: the bytes of an installed profile's   *)
(* .cbor are replaced by other bytes only by an Add with Replace on that   *)
(* slug, never by a rename, a mode change, a marker change or a rollback.  *)
ClobberOnlyByReplace ==
    [][\A s \in Slugs :
         (Installed(s) /\ bundleFile[s] # None
            /\ bundleFile'[s] \notin {bundleFile[s], None})
         => (step' = "addMeta" /\ req'.slug = s /\ req'.replace)]_vars

(* Seen through the lock, the files implement the catalogue: an operation  *)
(* that returns took effect as one step, and one that failed or was cut    *)
(* short left no more behind than the catalogue's Abort actions allow.     *)
Catalog == INSTANCE ProfileCatalog WITH
    catalog <- [s \in Slugs |-> [bundle |-> before.bundle[s], meta |-> before.meta[s]]],
    active <- before.active

ImplementsCatalog == Catalog!CSpec

(* The Abort actions are not needed while nothing goes wrong: until a      *)
(* write fails or the process dies inside an operation, every change to    *)
(* the catalogue is one whole operation, with its marker and its old files *)
(* taken care of.                                                          *)
WholeUntilFault ==
    [][~faulted' => (Catalog!CWhole \/ UNCHANGED Catalog!cvars)]_vars

=============================================================================

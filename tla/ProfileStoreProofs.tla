------------------------- MODULE ProfileStoreProofs -------------------------
(***************************************************************************)
(* The safety properties of ProfileStore for every set of slugs, names,    *)
(* bundles, modes and overrides, and for every choice of faults.           *)
(***************************************************************************)
EXTENDS ProfileStore, TLAPS

USE StoreAssumption

LEMMA MetaEdits ==
    ASSUME NEW x \in Meta
    PROVE  /\ \A n \in Names : [x EXCEPT !.name = n] \in Meta
           /\ \A m \in Modes : [x EXCEPT !.mode = m] \in Meta
           /\ \A i \in Intents \cup {None} : [x EXCEPT !.rosenpass = i] \in Meta
BY DEF Meta

LEMMA NoReqType == NoReq \in Request
BY DEF NoReq, Request

LEMMA FilesType ==
    ASSUME bundleFile \in [Slugs -> Bundles \cup {None}],
           metaFile \in [Slugs -> Meta \cup {None}],
           activeFile \in Slugs \cup {None}
    PROVE  Files \in [bundle: [Slugs -> Bundles \cup {None}],
                      meta: [Slugs -> Meta \cup {None}],
                      active: Slugs \cup {None}]
BY DEF Files

(***************************************************************************)
(* What the operation in progress knows: its arguments, and which of its   *)
(* files exist.  This is what makes the other invariants inductive.        *)
(***************************************************************************)
AddFacts ==
    step \in {"addMeta", "addRollback"} =>
        /\ req.slug \in Slugs
        /\ req.meta \in Meta
        /\ req.bundle \in Trusted
        /\ bundleFile[req.slug] = req.bundle
        /\ req.old = None

RemoveFacts ==
    step \in {"removeBundle", "removeActive"} =>
        /\ req.slug \in Slugs
        /\ req.old = None
        /\ metaFile[req.slug] = None
        /\ step = "removeActive" =>
             (activeFile = req.slug /\ bundleFile[req.slug] = None)

RenameFacts ==
    step \in RenameSteps =>
        /\ req.slug \in Slugs /\ req.old \in Slugs /\ req.slug # req.old
        /\ req.meta \in Meta
        /\ req.bundle \in Bundles
        /\ bundleFile[req.slug] = req.bundle
        /\ step \in {"renameMeta", "renameRollback"} =>
             /\ metaFile[req.old] # None
             /\ bundleFile[req.old] = req.bundle
             /\ metaFile[req.slug] = None
        /\ step \in {"renameOldBundle", "renameOldMeta", "renameActive"} =>
             metaFile[req.slug] # None
        /\ step = "renameActive" => activeFile = req.old

OpFacts == AddFacts /\ RemoveFacts /\ RenameFacts

-----------------------------------------------------------------------------
LEMMA InitType == Init => TypeOK
<1> SUFFICES ASSUME Init PROVE TypeOK
  OBVIOUS
<1>1. /\ bundleFile \in [Slugs -> Bundles \cup {None}]
      /\ metaFile \in [Slugs -> Meta \cup {None}]
      /\ activeFile \in Slugs \cup {None}
  BY DEF Init
<1>2. before \in [bundle: [Slugs -> Bundles \cup {None}],
                 meta: [Slugs -> Meta \cup {None}], active: Slugs \cup {None}]
  BY <1>1, FilesType DEF Init
<1>3. step \in Steps /\ req \in Request /\ faulted \in BOOLEAN
  BY NoReqType DEF Init, Steps
<1> QED
  BY <1>1, <1>2, <1>3 DEF TypeOK

LEMMA NextType == TypeOK /\ OpFacts /\ [Next]_vars => TypeOK'
<1> SUFFICES ASSUME TypeOK, OpFacts, [Next]_vars PROVE TypeOK'
  OBVIOUS
<1> USE NoReqType DEF TypeOK
<1>1. ASSUME NEW n \in Names, NEW m \in Modes, NEW b \in Bundles, NEW r \in BOOLEAN,
             AddWriteBundle(n, m, b, r)
      PROVE TypeOK'
  BY <1>1 DEF AddWriteBundle, Begin, Request, Meta, Steps
<1>2. ASSUME NEW s \in Slugs, RemoveMeta(s) PROVE TypeOK'
  BY <1>2 DEF RemoveMeta, Begin, Request, NoReq, Steps
<1>3. ASSUME NEW s \in Slugs, NEW n \in Names, RenameWriteBundle(s, n) PROVE TypeOK'
  <2>1. metaFile[s] \in Meta
    BY <1>3 DEF RenameWriteBundle, Installed
  <2>2. [metaFile[s] EXCEPT !.name = n] \in Meta
    BY <2>1, MetaEdits
  <2>3. SlugOf[n] \in Slugs
    BY <1>3 DEF RenameWriteBundle
  <2>4. req' \in Request
    BY <1>3, <2>2, <2>3 DEF RenameWriteBundle, Begin, Request
  <2> QED
    BY <1>3, <2>3, <2>4 DEF RenameWriteBundle, Begin, Copied, Steps
<1>4. ASSUME NEW s \in Slugs, NEW n \in Names, RenameInPlace(s, n) PROVE TypeOK'
  <2>1. metaFile[s] \in Meta
    BY <1>4 DEF RenameInPlace, Installed
  <2>2. [metaFile[s] EXCEPT !.name = n] \in Meta
    BY <2>1, MetaEdits
  <2>3. metaFile' \in [Slugs -> Meta \cup {None}]
    BY <1>4, <2>2 DEF RenameInPlace
  <2> QED
    BY <1>4, <2>3 DEF RenameInPlace, Single, Files
<1>5. ASSUME NEW s \in Slugs \cup {None}, SetActive(s) PROVE TypeOK'
  BY <1>5 DEF SetActive, Single, Files
<1>6. ASSUME NEW s \in Slugs, NEW m \in Modes, UpdateMode(s, m) PROVE TypeOK'
  <2>1. metaFile[s] \in Meta
    BY <1>6 DEF UpdateMode, Installed
  <2>2. [metaFile[s] EXCEPT !.mode = m] \in Meta
    BY <2>1, MetaEdits
  <2>3. metaFile' \in [Slugs -> Meta \cup {None}]
    BY <1>6, <2>2 DEF UpdateMode, WithMode
  <2> QED
    BY <1>6, <2>3 DEF UpdateMode, Single, Files
<1>7. ASSUME NEW s \in Slugs, NEW i \in Intents \cup {None}, UpdateRosenpass(s, i)
      PROVE TypeOK'
  <2>1. metaFile[s] \in Meta
    BY <1>7 DEF UpdateRosenpass, Installed
  <2>2. [metaFile[s] EXCEPT !.rosenpass = i] \in Meta
    BY <2>1, MetaEdits
  <2>3. metaFile' \in [Slugs -> Meta \cup {None}]
    BY <1>7, <2>2 DEF UpdateRosenpass
  <2> QED
    BY <1>7, <2>3 DEF UpdateRosenpass, Single, Files
<1>8. ASSUME NEW ok \in IoOutcome, AddWriteMeta(ok) PROVE TypeOK'
  BY <1>8 DEF AddWriteMeta, Continue, Files, Steps, OpFacts, AddFacts
<1>9. ASSUME NEW ok \in IoOutcome, AddRollback(ok) PROVE TypeOK'
  BY <1>9 DEF AddRollback, Continue, Files, Steps, OpFacts, AddFacts
<1>10. ASSUME NEW ok \in IoOutcome, RemoveBundle(ok) PROVE TypeOK'
  BY <1>10 DEF RemoveBundle, Continue, Files, Steps, OpFacts, RemoveFacts
<1>11. ASSUME NEW ok \in IoOutcome, RemoveActive(ok) PROVE TypeOK'
  BY <1>11 DEF RemoveActive, Continue, Files, Steps, OpFacts, RemoveFacts
<1>12. ASSUME NEW ok \in IoOutcome, RenameWriteMeta(ok) PROVE TypeOK'
  BY <1>12 DEF RenameWriteMeta, Continue, Files, Steps, OpFacts, RenameFacts, RenameSteps
<1>13. ASSUME NEW ok \in IoOutcome, RenameRollback(ok) PROVE TypeOK'
  BY <1>13 DEF RenameRollback, Continue, Files, Steps, OpFacts, RenameFacts, RenameSteps
<1>14. ASSUME NEW ok \in IoOutcome, RenameOldBundle(ok) PROVE TypeOK'
  BY <1>14 DEF RenameOldBundle, Continue, Files, Steps, OpFacts, RenameFacts, RenameSteps
<1>15. ASSUME NEW ok \in IoOutcome, RenameOldMeta(ok) PROVE TypeOK'
  BY <1>15 DEF RenameOldMeta, Continue, Files, Steps, OpFacts, RenameFacts, RenameSteps
<1>16. ASSUME NEW ok \in IoOutcome, RenameActive(ok) PROVE TypeOK'
  BY <1>16 DEF RenameActive, Continue, Files, Steps, OpFacts, RenameFacts, RenameSteps
<1>17. CASE Crash
  BY <1>17 DEF Crash, Files, Steps
<1>18. CASE UNCHANGED vars
  BY <1>18 DEF vars
<1> QED
  BY <1>1, <1>2, <1>3, <1>4, <1>5, <1>6, <1>7, <1>8, <1>9, <1>10, <1>11, <1>12,
     <1>13, <1>14, <1>15, <1>16, <1>17, <1>18 DEF Next

-----------------------------------------------------------------------------
(* An operation that ends leaves nothing to know. *)
LEMMA IdleOpFacts == step = "idle" => OpFacts
BY DEF OpFacts, AddFacts, RemoveFacts, RenameFacts, RenameSteps

LEMMA NextOpFacts == TypeOK /\ OpFacts /\ [Next]_vars => OpFacts'
<1> SUFFICES ASSUME TypeOK, OpFacts, [Next]_vars PROVE OpFacts'
  OBVIOUS
<1> USE DEF TypeOK, OpFacts, AddFacts, RemoveFacts, RenameFacts, RenameSteps
<1>1. ASSUME NEW n \in Names, NEW m \in Modes, NEW b \in Bundles, NEW r \in BOOLEAN,
             AddWriteBundle(n, m, b, r)
      PROVE OpFacts'
  BY <1>1 DEF AddWriteBundle, Begin, Verified, Meta
<1>2. ASSUME NEW s \in Slugs, RemoveMeta(s) PROVE OpFacts'
  BY <1>2 DEF RemoveMeta, Begin, NoReq
<1>3. ASSUME NEW s \in Slugs, NEW n \in Names, RenameWriteBundle(s, n) PROVE OpFacts'
  <2>1. metaFile[s] \in Meta /\ SlugOf[n] \in Slugs /\ SlugOf[n] # s
    BY <1>3 DEF RenameWriteBundle, Installed
  <2>2. [metaFile[s] EXCEPT !.name = n] \in Meta
    BY <2>1, MetaEdits
  <2> QED
    BY <1>3, <2>1, <2>2 DEF RenameWriteBundle, Begin, Copied, Installed, TargetFree
<1>4. ASSUME Single PROVE OpFacts'
  BY <1>4 DEF Single
<1>5. ASSUME NEW ok \in IoOutcome, AddWriteMeta(ok) PROVE OpFacts'
  BY <1>5 DEF AddWriteMeta, Continue
<1>6. ASSUME NEW ok \in IoOutcome, AddRollback(ok) PROVE OpFacts'
  BY <1>6 DEF AddRollback, Continue
<1>7. ASSUME NEW ok \in IoOutcome, RemoveBundle(ok) PROVE OpFacts'
  BY <1>7 DEF RemoveBundle, Continue, MarkerNames
<1>8. ASSUME NEW ok \in IoOutcome, RemoveActive(ok) PROVE OpFacts'
  BY <1>8 DEF RemoveActive, Continue
<1>9. ASSUME NEW ok \in IoOutcome, RenameWriteMeta(ok) PROVE OpFacts'
  BY <1>9 DEF RenameWriteMeta, Continue
<1>10. ASSUME NEW ok \in IoOutcome, RenameRollback(ok) PROVE OpFacts'
  BY <1>10 DEF RenameRollback, Continue
<1>11. ASSUME NEW ok \in IoOutcome, RenameOldBundle(ok) PROVE OpFacts'
  BY <1>11 DEF RenameOldBundle, Continue
<1>12. ASSUME NEW ok \in IoOutcome, RenameOldMeta(ok) PROVE OpFacts'
  BY <1>12 DEF RenameOldMeta, Continue, MarkerNames
<1>13. ASSUME NEW ok \in IoOutcome, RenameActive(ok) PROVE OpFacts'
  BY <1>13 DEF RenameActive, Continue
<1>14. CASE Crash
  BY <1>14 DEF Crash
<1>15. CASE UNCHANGED vars
  BY <1>15 DEF vars
<1> QED
  BY <1>1, <1>2, <1>3, <1>4, <1>5, <1>6, <1>7, <1>8, <1>9, <1>10, <1>11, <1>12,
     <1>13, <1>14, <1>15
  DEF Next, RenameInPlace, SetActive, UpdateMode, UpdateRosenpass

(* The files and the operation in progress always have their types, and    *)
(* the operation's own facts hold at each of its steps.                    *)
THEOREM TypeCorrect == Spec => [](TypeOK /\ OpFacts)
<1>1. Init => TypeOK /\ OpFacts
  BY InitType, IdleOpFacts DEF Init
<1>2. TypeOK /\ OpFacts /\ [Next]_vars => (TypeOK /\ OpFacts)'
  BY NextType, NextOpFacts
<1> QED
  BY <1>1, <1>2, PTL DEF Spec

-----------------------------------------------------------------------------
(* The operations that write or delete a .cbor. *)
BundleWriter ==
    \/ \E n \in Names, m \in Modes, b \in Bundles, r \in BOOLEAN :
         AddWriteBundle(n, m, b, r)
    \/ \E s \in Slugs, n \in Names : RenameWriteBundle(s, n)
    \/ \E ok \in IoOutcome :
         AddRollback(ok) \/ RemoveBundle(ok) \/ RenameRollback(ok) \/ RenameOldBundle(ok)

LEMMA WhoWritesBundles == [Next]_vars => BundleWriter \/ UNCHANGED bundleFile
<1>1. ASSUME NEW s \in Slugs, RemoveMeta(s) PROVE UNCHANGED bundleFile
  BY <1>1 DEF RemoveMeta
<1>2. ASSUME NEW s \in Slugs, NEW n \in Names, RenameInPlace(s, n)
      PROVE UNCHANGED bundleFile
  BY <1>2 DEF RenameInPlace
<1>3. ASSUME NEW s \in Slugs \cup {None}, SetActive(s) PROVE UNCHANGED bundleFile
  BY <1>3 DEF SetActive
<1>4. ASSUME NEW s \in Slugs, NEW m \in Modes, UpdateMode(s, m)
      PROVE UNCHANGED bundleFile
  BY <1>4 DEF UpdateMode
<1>5. ASSUME NEW s \in Slugs, NEW i \in Intents \cup {None}, UpdateRosenpass(s, i)
      PROVE UNCHANGED bundleFile
  BY <1>5 DEF UpdateRosenpass
<1>6. ASSUME NEW ok \in IoOutcome,
             \/ AddWriteMeta(ok) \/ RemoveActive(ok) \/ RenameWriteMeta(ok)
             \/ RenameOldMeta(ok) \/ RenameActive(ok)
      PROVE UNCHANGED bundleFile
  BY <1>6 DEF AddWriteMeta, RemoveActive, RenameWriteMeta, RenameOldMeta, RenameActive
<1>7. Crash \/ UNCHANGED vars => UNCHANGED bundleFile
  BY DEF Crash, vars
<1> QED
  BY <1>1, <1>2, <1>3, <1>4, <1>5, <1>6, <1>7 DEF Next, BundleWriter

(* No file on disk ever holds bundle bytes that did not verify: Add checks *)
(* them before the first write, Rename copies bytes that were on disk.     *)
THEOREM VerifiedOnDisk == Spec => []OnlyVerifiedOnDisk
<1>1. Init => OnlyVerifiedOnDisk
  BY DEF Init, OnlyVerifiedOnDisk
<1>2. TypeOK /\ OpFacts /\ OnlyVerifiedOnDisk /\ [Next]_vars => OnlyVerifiedOnDisk'
  <2> SUFFICES ASSUME TypeOK, OpFacts, OnlyVerifiedOnDisk, [Next]_vars
               PROVE  OnlyVerifiedOnDisk'
    OBVIOUS
  <2> USE DEF TypeOK, OnlyVerifiedOnDisk
  <2>1. ASSUME NEW n \in Names, NEW m \in Modes, NEW b \in Bundles, NEW r \in BOOLEAN,
               AddWriteBundle(n, m, b, r)
        PROVE OnlyVerifiedOnDisk'
    BY <2>1 DEF AddWriteBundle, Verified
  <2>2. ASSUME NEW s \in Slugs, NEW n \in Names, RenameWriteBundle(s, n)
        PROVE OnlyVerifiedOnDisk'
    BY <2>2 DEF RenameWriteBundle, Copied
  <2>3. ASSUME NEW ok \in IoOutcome,
               AddRollback(ok) \/ RemoveBundle(ok) \/ RenameRollback(ok) \/ RenameOldBundle(ok)
        PROVE OnlyVerifiedOnDisk'
    BY <2>3 DEF AddRollback, RemoveBundle, RenameRollback, RenameOldBundle
  <2>4. CASE UNCHANGED bundleFile
    BY <2>4
  <2> QED
    BY <2>1, <2>2, <2>3, <2>4, WhoWritesBundles DEF BundleWriter
<1> QED
  BY <1>1, <1>2, TypeCorrect, PTL DEF Spec

(* At every instant of a rename, one of its two slugs has both its files,  *)
(* with the renamed bundle's bytes: a crash never loses the profile.       *)
THEOREM RenameIsLossless == Spec => []RenameKeepsProfile
<1>1. TypeOK /\ OpFacts => RenameKeepsProfile
  BY DEF TypeOK, OpFacts, RenameFacts, RenameKeepsProfile, RenameSteps, Installed
<1> QED
  BY <1>1, TypeCorrect, PTL

(* Clobber resistance: an installed profile's bytes change only by an Add  *)
(* with Replace on its own slug.                                           *)
THEOREM ClobberResistance == Spec => ClobberOnlyByReplace
<1> DEFINE Ok == \A s \in Slugs :
                   (Installed(s) /\ bundleFile[s] # None
                      /\ bundleFile'[s] \notin {bundleFile[s], None})
                   => (step' = "addMeta" /\ req'.slug = s /\ req'.replace)
<1>1. TypeOK /\ OpFacts /\ [Next]_vars => [Ok]_vars
  <2> SUFFICES ASSUME TypeOK, OpFacts, Next PROVE Ok
    OBVIOUS
  <2> USE DEF TypeOK, Installed
  <2>1. ASSUME NEW n \in Names, NEW m \in Modes, NEW b \in Bundles, NEW r \in BOOLEAN,
               AddWriteBundle(n, m, b, r)
        PROVE Ok
    BY <2>1 DEF AddWriteBundle, Begin, TargetFree
  <2>2. ASSUME NEW s \in Slugs, NEW n \in Names, RenameWriteBundle(s, n) PROVE Ok
    BY <2>2 DEF RenameWriteBundle, TargetFree, Copied
  <2>3. ASSUME NEW ok \in IoOutcome,
               AddRollback(ok) \/ RemoveBundle(ok) \/ RenameRollback(ok) \/ RenameOldBundle(ok)
        PROVE Ok
    BY <2>3 DEF AddRollback, RemoveBundle, RenameRollback, RenameOldBundle
  <2>4. CASE UNCHANGED bundleFile
    BY <2>4
  <2> QED
    BY <2>1, <2>2, <2>3, <2>4, WhoWritesBundles DEF BundleWriter
<1> QED
  BY <1>1, TypeCorrect, PTL DEF Spec, ClobberOnlyByReplace

-----------------------------------------------------------------------------
(***************************************************************************)
(* While nothing has failed: the slugs no operation is working on have     *)
(* both files or none, and the marker names an installed profile or the    *)
(* slug whose files the operation in progress is taking away.              *)
(***************************************************************************)
CleanInv ==
    /\ step = "idle" => req = NoReq
    /\ ~faulted =>
        /\ step \notin {"addRollback", "renameRollback"}
        /\ \A s \in Slugs \ {req.slug, req.old} : Installed(s) <=> bundleFile[s] # None
        /\ \/ activeFile = None
           \/ Installed(activeFile)
           \/ step \in {"removeBundle", "removeActive"} /\ activeFile = req.slug
           \/ step = "renameActive" /\ activeFile = req.old
        /\ step = "removeActive" => bundleFile[req.slug] = None
        /\ step = "renameOldMeta" => bundleFile[req.old] = None
        /\ step = "renameActive" => bundleFile[req.old] = None /\ metaFile[req.old] = None

LEMMA NextClean == TypeOK /\ OpFacts /\ CleanInv /\ [Next]_vars => CleanInv'
<1> SUFFICES ASSUME TypeOK, OpFacts, CleanInv, [Next]_vars PROVE CleanInv'
  OBVIOUS
<1> USE DEF TypeOK, OpFacts, AddFacts, RemoveFacts, RenameFacts, RenameSteps,
            CleanInv, Installed, NoReq
<1>1. ASSUME NEW n \in Names, NEW m \in Modes, NEW b \in Bundles, NEW r \in BOOLEAN,
             AddWriteBundle(n, m, b, r)
      PROVE CleanInv'
  BY <1>1 DEF AddWriteBundle, Begin
<1>2. ASSUME NEW s \in Slugs, RemoveMeta(s) PROVE CleanInv'
  BY <1>2 DEF RemoveMeta, Begin
<1>3. ASSUME NEW s \in Slugs, NEW n \in Names, RenameWriteBundle(s, n) PROVE CleanInv'
  BY <1>3 DEF RenameWriteBundle, Begin, Copied, TargetFree
<1>4. ASSUME NEW s \in Slugs, NEW n \in Names, RenameInPlace(s, n) PROVE CleanInv'
  <2>1. metaFile[s] \in Meta
    BY <1>4 DEF RenameInPlace
  <2>2. [metaFile[s] EXCEPT !.name = n] # None
    BY <2>1, MetaEdits
  <2> QED
    BY <1>4, <2>2 DEF RenameInPlace, Single
<1>5. ASSUME NEW s \in Slugs \cup {None}, SetActive(s) PROVE CleanInv'
  BY <1>5 DEF SetActive, Single
<1>6. ASSUME NEW s \in Slugs, NEW m \in Modes, UpdateMode(s, m) PROVE CleanInv'
  <2>1. metaFile[s] \in Meta
    BY <1>6 DEF UpdateMode
  <2>2. [metaFile[s] EXCEPT !.mode = m] # None
    BY <2>1, MetaEdits
  <2> QED
    BY <1>6, <2>2 DEF UpdateMode, WithMode, Single
<1>7. ASSUME NEW s \in Slugs, NEW i \in Intents \cup {None}, UpdateRosenpass(s, i)
      PROVE CleanInv'
  <2>1. metaFile[s] \in Meta
    BY <1>7 DEF UpdateRosenpass
  <2>2. [metaFile[s] EXCEPT !.rosenpass = i] # None
    BY <2>1, MetaEdits
  <2> QED
    BY <1>7, <2>2 DEF UpdateRosenpass, Single
<1>8. ASSUME NEW ok \in IoOutcome, AddWriteMeta(ok) PROVE CleanInv'
  BY <1>8 DEF AddWriteMeta, Continue
<1>9. ASSUME NEW ok \in IoOutcome, AddRollback(ok) PROVE CleanInv'
  BY <1>9 DEF AddRollback, Continue
<1>10. ASSUME NEW ok \in IoOutcome, RemoveBundle(ok) PROVE CleanInv'
  BY <1>10 DEF RemoveBundle, Continue, MarkerNames
<1>11. ASSUME NEW ok \in IoOutcome, RemoveActive(ok) PROVE CleanInv'
  BY <1>11 DEF RemoveActive, Continue
<1>12. ASSUME NEW ok \in IoOutcome, RenameWriteMeta(ok) PROVE CleanInv'
  BY <1>12 DEF RenameWriteMeta, Continue
<1>13. ASSUME NEW ok \in IoOutcome, RenameRollback(ok) PROVE CleanInv'
  BY <1>13 DEF RenameRollback, Continue
<1>14. ASSUME NEW ok \in IoOutcome, RenameOldBundle(ok) PROVE CleanInv'
  BY <1>14 DEF RenameOldBundle, Continue
<1>15. ASSUME NEW ok \in IoOutcome, RenameOldMeta(ok) PROVE CleanInv'
  <2>1. CASE activeFile = req.old
    BY <1>15, <2>1 DEF RenameOldMeta, Continue, MarkerNames
  <2>2. CASE activeFile # req.old
    BY <1>15, <2>2 DEF RenameOldMeta, Continue, MarkerNames
  <2> QED
    BY <2>1, <2>2
<1>16. ASSUME NEW ok \in IoOutcome, RenameActive(ok) PROVE CleanInv'
  BY <1>16 DEF RenameActive, Continue
<1>17. CASE Crash
  BY <1>17 DEF Crash
<1>18. CASE UNCHANGED vars
  BY <1>18 DEF vars
<1> QED
  BY <1>1, <1>2, <1>3, <1>4, <1>5, <1>6, <1>7, <1>8, <1>9, <1>10, <1>11, <1>12,
     <1>13, <1>14, <1>15, <1>16, <1>17, <1>18 DEF Next

(* Until a write fails or the process dies inside an operation, every      *)
(* profile has both its files or none whenever the lock is free, and the   *)
(* marker names an existing profile.                                       *)
THEOREM CleanUntilFault == Spec => []ConsistentUntilFault
<1>1. Init => CleanInv
  BY DEF Init, CleanInv, NoReq, Installed
<1>2. TypeOK /\ OpFacts /\ CleanInv /\ [Next]_vars => CleanInv'
  BY NextClean
<1>3. TypeOK /\ CleanInv => ConsistentUntilFault
  BY DEF TypeOK, CleanInv, ConsistentUntilFault, NoReq, Installed
<1> QED
  BY <1>1, <1>2, <1>3, TypeCorrect, PTL DEF Spec

-----------------------------------------------------------------------------
(***************************************************************************)
(* The refinement.  `before` holds the files as the catalogue shows them;  *)
(* Tracks says how the files on disk differ from it at each step of the    *)
(* operation in progress, and that the operation's checks held on them.    *)
(***************************************************************************)
Only(f, g, s, v) == \A q \in Slugs : f[q] = IF q = s THEN v ELSE g[q]

TracksAdd ==
    step \in {"addMeta", "addRollback"} =>
        /\ SlugOf[req.meta.name] = req.slug
        /\ req.meta.rosenpass = None
        /\ req.replace \/ before.meta[req.slug] = None
        /\ Only(bundleFile, before.bundle, req.slug, req.bundle)
        /\ metaFile = before.meta
        /\ activeFile = before.active

TracksRemove ==
    step \in {"removeBundle", "removeActive"} =>
        /\ before.meta[req.slug] # None
        /\ Only(bundleFile, before.bundle, req.slug, bundleFile[req.slug])
        /\ bundleFile[req.slug] \in {before.bundle[req.slug], None}
        /\ Only(metaFile, before.meta, req.slug, None)
        /\ activeFile = before.active

TracksRename ==
    step \in RenameSteps =>
        /\ SlugOf[req.meta.name] = req.slug
        /\ before.meta[req.old] # None
        /\ before.meta[req.slug] = None
        /\ before.bundle[req.old] = req.bundle
        /\ req.meta = [before.meta[req.old] EXCEPT !.name = req.meta.name]
        /\ \A q \in Slugs \ {req.slug, req.old} :
             bundleFile[q] = before.bundle[q] /\ metaFile[q] = before.meta[q]
        /\ bundleFile[req.old] \in {before.bundle[req.old], None}
        /\ metaFile[req.old] \in {before.meta[req.old], None}
        /\ step \in {"renameOldBundle", "renameOldMeta", "renameActive"} =>
             metaFile[req.slug] = req.meta
        /\ step \in {"renameMeta", "renameRollback"} =>
             metaFile[req.old] = before.meta[req.old]
        /\ activeFile = before.active

Tracks ==
    /\ step = "idle" => before = Files
    /\ TracksAdd
    /\ TracksRemove
    /\ TracksRename

LEMMA NextTracks == TypeOK /\ OpFacts /\ Tracks /\ [Next]_vars => Tracks'
<1> SUFFICES ASSUME TypeOK, OpFacts, Tracks, [Next]_vars PROVE Tracks'
  OBVIOUS
<1> USE DEF TypeOK, OpFacts, AddFacts, RemoveFacts, RenameFacts, RenameSteps,
            Tracks, TracksAdd, TracksRemove, TracksRename, Only
<1>1. ASSUME NEW n \in Names, NEW m \in Modes, NEW b \in Bundles, NEW r \in BOOLEAN,
             AddWriteBundle(n, m, b, r)
      PROVE Tracks'
  BY <1>1 DEF AddWriteBundle, Begin, Files, TargetFree, Installed
<1>2. ASSUME NEW s \in Slugs, RemoveMeta(s) PROVE Tracks'
  BY <1>2 DEF RemoveMeta, Begin, NoReq, Files, Installed
<1>3. ASSUME NEW s \in Slugs, NEW n \in Names, RenameWriteBundle(s, n) PROVE Tracks'
  <2>1. metaFile[s] \in Meta /\ SlugOf[n] \in Slugs /\ SlugOf[n] # s
    BY <1>3 DEF RenameWriteBundle, Installed
  <2>2. [metaFile[s] EXCEPT !.name = n].name = n
    BY <2>1 DEF Meta
  <2>3. /\ step' = "renameMeta"
        /\ req'.slug = SlugOf[n] /\ req'.old = s /\ req'.bundle = bundleFile[s]
        /\ req'.meta = [metaFile[s] EXCEPT !.name = n]
        /\ before' = before /\ metaFile' = metaFile /\ activeFile' = activeFile
    BY <1>3 DEF RenameWriteBundle, Begin
  <2>4. before.meta = metaFile /\ before.bundle = bundleFile /\ before.active = activeFile
    BY <1>3 DEF RenameWriteBundle, Begin, Files
  <2>5. metaFile[s] # None /\ metaFile[SlugOf[n]] = None
    BY <1>3 DEF RenameWriteBundle, Installed, TargetFree
  <2>6. /\ bundleFile'[s] = bundleFile[s]
        /\ \A q \in Slugs \ {SlugOf[n]} : bundleFile'[q] = bundleFile[q]
    BY <1>3, <2>1 DEF RenameWriteBundle, Copied
  <2>7. TracksRename'
    BY <2>1, <2>2, <2>3, <2>4, <2>5, <2>6
  <2> QED
    BY <2>3, <2>7
<1>4. ASSUME Single PROVE Tracks'
  BY <1>4 DEF Single
<1>5. ASSUME NEW ok \in IoOutcome, AddWriteMeta(ok) PROVE Tracks'
  BY <1>5 DEF AddWriteMeta, Continue
<1>6. ASSUME NEW ok \in IoOutcome, AddRollback(ok) PROVE Tracks'
  BY <1>6 DEF AddRollback, Continue
<1>7. ASSUME NEW ok \in IoOutcome, RemoveBundle(ok) PROVE Tracks'
  BY <1>7 DEF RemoveBundle, Continue, MarkerNames
<1>8. ASSUME NEW ok \in IoOutcome, RemoveActive(ok) PROVE Tracks'
  BY <1>8 DEF RemoveActive, Continue
<1>9. ASSUME NEW ok \in IoOutcome, RenameWriteMeta(ok) PROVE Tracks'
  BY <1>9 DEF RenameWriteMeta, Continue
<1>10. ASSUME NEW ok \in IoOutcome, RenameRollback(ok) PROVE Tracks'
  BY <1>10 DEF RenameRollback, Continue
<1>11. ASSUME NEW ok \in IoOutcome, RenameOldBundle(ok) PROVE Tracks'
  BY <1>11 DEF RenameOldBundle, Continue
<1>12. ASSUME NEW ok \in IoOutcome, RenameOldMeta(ok) PROVE Tracks'
  BY <1>12 DEF RenameOldMeta, Continue, MarkerNames
<1>13. ASSUME NEW ok \in IoOutcome, RenameActive(ok) PROVE Tracks'
  BY <1>13 DEF RenameActive, Continue
<1>14. CASE Crash
  BY <1>14 DEF Crash, Files
<1>15. CASE UNCHANGED vars
  BY <1>15 DEF vars, Files
<1> HIDE DEF TypeOK, OpFacts, Tracks
<1> QED
  BY <1>1, <1>2, <1>3, <1>4, <1>5, <1>6, <1>7, <1>8, <1>9, <1>10, <1>11, <1>12,
     <1>13, <1>14, <1>15
  DEF Next, RenameInPlace, SetActive, UpdateMode, UpdateRosenpass

(* The catalogue the refinement mapping shows. *)
View == [s \in Slugs |-> [bundle |-> before.bundle[s], meta |-> before.meta[s]]]

LEMMA ViewEdited ==
    ASSUME NEW s \in Slugs, NEW b, NEW m,
           Only(before'.bundle, before.bundle, s, b),
           Only(before'.meta, before.meta, s, m)
    PROVE  View' = [View EXCEPT ![s] = [bundle |-> b, meta |-> m]]
<1>1. ASSUME NEW q \in Slugs
      PROVE  View'[q] = [View EXCEPT ![s] = [bundle |-> b, meta |-> m]][q]
  BY DEF View, Only
<1> QED
  BY <1>1 DEF View

LEMMA ViewEditedTwice ==
    ASSUME NEW s \in Slugs, NEW b, NEW m, NEW t \in Slugs, NEW c, NEW n, s # t,
           before'.bundle[s] = b, before'.meta[s] = m,
           before'.bundle[t] = c, before'.meta[t] = n,
           \A q \in Slugs \ {s, t} :
             before'.bundle[q] = before.bundle[q] /\ before'.meta[q] = before.meta[q]
    PROVE  View' = [View EXCEPT ![t] = [bundle |-> c, meta |-> n],
                                ![s] = [bundle |-> b, meta |-> m]]
<1>1. ASSUME NEW q \in Slugs
      PROVE  View'[q] = [View EXCEPT ![t] = [bundle |-> c, meta |-> n],
                                     ![s] = [bundle |-> b, meta |-> m]][q]
  BY DEF View
<1> QED
  BY <1>1 DEF View

(* One operation of the catalogue for each way an operation ends. *)
LEMMA AddDone ==
    ASSUME TypeOK, OpFacts, Tracks, step = "addMeta", before' = Files',
           metaFile' = [metaFile EXCEPT ![req.slug] = req.meta],
           UNCHANGED <<bundleFile, activeFile>>
    PROVE  Catalog!CWhole
<1> DEFINE n == req.meta.name
           m == req.meta.mode
<1>1. /\ req.meta \in Meta /\ req.slug \in Slugs /\ req.bundle \in Trusted
      /\ SlugOf[n] = req.slug /\ req.meta.rosenpass = None
      /\ req.replace \/ before.meta[req.slug] = None
      /\ Only(bundleFile, before.bundle, req.slug, req.bundle)
      /\ metaFile = before.meta /\ activeFile = before.active
      /\ req.replace \in BOOLEAN
  BY DEF TypeOK, OpFacts, AddFacts, Tracks, TracksAdd, Request
<1>2. n \in Names /\ m \in Modes /\ req.bundle \in Bundles
      /\ req.meta = [name |-> n, mode |-> m, rosenpass |-> None]
  BY <1>1 DEF Meta
<1>3. /\ before'.bundle = bundleFile /\ before'.active = activeFile
      /\ Only(before'.meta, before.meta, req.slug, req.meta)
  BY <1>1 DEF Files, Only, TypeOK
<1>4. View' = [View EXCEPT ![req.slug] = [bundle |-> req.bundle, meta |-> req.meta]]
  BY <1>1, <1>3, ViewEdited
<1>5. View[req.slug].meta = before.meta[req.slug]
  BY <1>1 DEF View
<1>6. Catalog!CanAdd(n, req.bundle, req.replace)
  BY <1>1, <1>5 DEF Catalog!CanAdd, Catalog!Signed, Catalog!Installed, View
<1>7. PICK x \in Names, y \in Modes, b \in Bundles, r \in BOOLEAN :
        x = n /\ y = m /\ b = req.bundle /\ r = req.replace
  BY <1>1, <1>2, Zenon
<1>8. Catalog!Add(x, y, b, r)
  BY <1>1, <1>2, <1>3, <1>4, <1>6, <1>7
  DEF Catalog!Add, Catalog!FreshMeta, Catalog!CanAdd, View
<1> QED
  BY <1>8 DEF Catalog!CWhole

LEMMA AddCut ==
    ASSUME TypeOK, OpFacts, Tracks, step \in {"addMeta", "addRollback"}, before' = Files',
           \/ UNCHANGED bundleFile
           \/ bundleFile' = [bundleFile EXCEPT ![req.slug] = None],
           UNCHANGED <<metaFile, activeFile>>
    PROVE  Catalog!CCutShort
<1> DEFINE n == req.meta.name
           left == bundleFile'[req.slug]
<1>1. /\ req.meta \in Meta /\ req.slug \in Slugs /\ req.bundle \in Trusted
      /\ SlugOf[n] = req.slug
      /\ req.replace \/ before.meta[req.slug] = None
      /\ Only(bundleFile, before.bundle, req.slug, req.bundle)
      /\ metaFile = before.meta /\ activeFile = before.active
      /\ req.replace \in BOOLEAN
  BY DEF TypeOK, OpFacts, AddFacts, Tracks, TracksAdd, Request
<1>2. n \in Names /\ req.bundle \in Bundles
  BY <1>1 DEF Meta
<1>3. /\ Only(before'.bundle, before.bundle, req.slug, left) /\ before'.active = activeFile
      /\ Only(before'.meta, before.meta, req.slug, before.meta[req.slug])
      /\ left \in {req.bundle, None}
  BY <1>1 DEF Files, Only, TypeOK
<1>4. View' = [View EXCEPT ![req.slug] = [bundle |-> left, meta |-> before.meta[req.slug]]]
  BY <1>1, <1>3, ViewEdited
<1>5. /\ View[req.slug].meta = before.meta[req.slug]
      /\ [View[req.slug] EXCEPT !.bundle = left]
           = [bundle |-> left, meta |-> before.meta[req.slug]]
  BY <1>1 DEF View
<1>6. Catalog!CanAdd(n, req.bundle, req.replace)
  BY <1>1, <1>5 DEF Catalog!CanAdd, Catalog!Signed, Catalog!Installed, View
<1>7. View' = [View EXCEPT ![req.slug].bundle = left]
  BY <1>1, <1>4, <1>5 DEF View
<1>8. PICK x \in Names, b \in Bundles, r \in BOOLEAN :
        x = n /\ b = req.bundle /\ r = req.replace
  BY <1>1, <1>2, Zenon
<1>9. Catalog!AbortAdd(x, b, r)
  BY <1>1, <1>3, <1>6, <1>7, <1>8 DEF Catalog!AbortAdd, Catalog!CanAdd, View
<1> QED
  BY <1>9 DEF Catalog!CCutShort

LEMMA RemoveDone ==
    ASSUME TypeOK, OpFacts, Tracks, step \in {"removeBundle", "removeActive"},
           before' = Files', UNCHANGED metaFile, bundleFile'[req.slug] = None,
           \A q \in Slugs \ {req.slug} : bundleFile'[q] = bundleFile[q],
           activeFile' = IF activeFile = req.slug THEN None ELSE activeFile
    PROVE  Catalog!CWhole
<1>1. /\ req.slug \in Slugs /\ before.meta[req.slug] # None
      /\ Only(bundleFile, before.bundle, req.slug, bundleFile[req.slug])
      /\ Only(metaFile, before.meta, req.slug, None)
      /\ activeFile = before.active
  BY DEF TypeOK, OpFacts, RemoveFacts, Tracks, TracksRemove
<1>2. /\ Only(before'.bundle, before.bundle, req.slug, None)
      /\ Only(before'.meta, before.meta, req.slug, None)
      /\ before'.active = activeFile'
  BY <1>1 DEF Files, Only, TypeOK
<1>3. View' = [View EXCEPT ![req.slug] = [bundle |-> None, meta |-> None]]
  BY <1>1, <1>2, ViewEdited
<1>4. View[req.slug].meta = before.meta[req.slug]
  BY <1>1 DEF View
<1>5. PICK s \in Slugs : s = req.slug
  BY <1>1
<1>6. Catalog!Remove(s)
  BY <1>1, <1>2, <1>3, <1>4, <1>5 DEF Catalog!Remove, Catalog!Installed, Catalog!Absent,
     View
<1> QED
  BY <1>6 DEF Catalog!CWhole

LEMMA RemoveCut ==
    ASSUME TypeOK, OpFacts, Tracks, step \in {"removeBundle", "removeActive"},
           before' = Files', UNCHANGED <<bundleFile, metaFile, activeFile>>
    PROVE  Catalog!CCutShort
<1> DEFINE left == bundleFile[req.slug]
<1>1. /\ req.slug \in Slugs /\ before.meta[req.slug] # None
      /\ Only(bundleFile, before.bundle, req.slug, left)
      /\ left \in {before.bundle[req.slug], None}
      /\ Only(metaFile, before.meta, req.slug, None)
      /\ activeFile = before.active
  BY DEF TypeOK, OpFacts, RemoveFacts, Tracks, TracksRemove
<1>2. /\ Only(before'.bundle, before.bundle, req.slug, left)
      /\ Only(before'.meta, before.meta, req.slug, None)
      /\ before'.active = activeFile
  BY <1>1 DEF Files, Only, TypeOK
<1>3. View' = [View EXCEPT ![req.slug] = [bundle |-> left, meta |-> None]]
  BY <1>1, <1>2, ViewEdited
<1>4. View[req.slug].meta = before.meta[req.slug] /\ View[req.slug].bundle = before.bundle[req.slug]
  BY <1>1 DEF View
<1>5. PICK s \in Slugs : s = req.slug
  BY <1>1
<1>6. Catalog!AbortRemove(s)
  BY <1>1, <1>2, <1>3, <1>4, <1>5 DEF Catalog!AbortRemove, Catalog!Installed, View
<1> QED
  BY <1>6 DEF Catalog!CCutShort

(* What a rename checked, on the catalogue, for the slug and the name it   *)
(* works with.                                                             *)
LEMMA RenameChecked ==
    ASSUME TypeOK, OpFacts, Tracks, step \in RenameSteps,
           NEW s \in Slugs, NEW n \in Names, s = req.old, n = req.meta.name
    PROVE  /\ Catalog!CanRename(s, n)
           /\ SlugOf[n] = req.slug
           /\ View[s] = [bundle |-> req.bundle, meta |-> before.meta[s]]
           /\ [View[s] EXCEPT !.meta.name = n] = [bundle |-> req.bundle, meta |-> req.meta]
<1>1. /\ req.slug \in Slugs /\ req.slug # s /\ req.bundle \in Bundles
      /\ SlugOf[n] = req.slug
      /\ before.meta[s] # None /\ before.meta[req.slug] = None
      /\ before.bundle[s] = req.bundle
      /\ req.meta = [before.meta[s] EXCEPT !.name = n]
  BY DEF TypeOK, OpFacts, RenameFacts, Tracks, TracksRename
<1>2. /\ View[s] = [bundle |-> req.bundle, meta |-> before.meta[s]]
      /\ View[req.slug].meta = None
  BY <1>1 DEF View
<1>3. Catalog!CanRename(s, n)
  BY <1>1, <1>2 DEF Catalog!CanRename, Catalog!Loadable, Catalog!Installed, View
<1> QED
  BY <1>1, <1>2, <1>3

LEMMA RenameArguments ==
    ASSUME TypeOK, OpFacts, step \in RenameSteps
    PROVE  \E s \in Slugs, n \in Names : s = req.old /\ n = req.meta.name
BY DEF OpFacts, RenameFacts, Meta

LEMMA RenameCutEarly ==
    ASSUME TypeOK, OpFacts, Tracks, step \in {"renameMeta", "renameRollback"},
           before' = Files',
           \/ UNCHANGED bundleFile
           \/ bundleFile' = [bundleFile EXCEPT ![req.slug] = None],
           UNCHANGED <<metaFile, activeFile>>
    PROVE  Catalog!CCutShort
<1> DEFINE left == bundleFile'[req.slug]
<1>1. PICK s \in Slugs, n \in Names : s = req.old /\ n = req.meta.name
  BY RenameArguments DEF RenameSteps
<1>2. /\ Catalog!CanRename(s, n)
      /\ SlugOf[n] = req.slug
      /\ View[s] = [bundle |-> req.bundle, meta |-> before.meta[s]]
  BY <1>1, RenameChecked DEF RenameSteps
<1>3. /\ req.slug \in Slugs /\ req.slug # req.old
      /\ metaFile[req.slug] = None /\ before.meta[req.slug] = None
      /\ metaFile[req.old] = before.meta[req.old]
      /\ bundleFile[req.old] = req.bundle /\ before.bundle[req.old] = req.bundle
      /\ bundleFile[req.slug] = req.bundle /\ activeFile = before.active
      /\ \A q \in Slugs \ {req.slug, req.old} :
           bundleFile[q] = before.bundle[q] /\ metaFile[q] = before.meta[q]
  BY DEF OpFacts, RenameFacts, Tracks, TracksRename, RenameSteps
<1>4. /\ Only(before'.bundle, before.bundle, req.slug, left) /\ before'.active = activeFile
      /\ Only(before'.meta, before.meta, req.slug, before.meta[req.slug])
      /\ left \in {req.bundle, None}
  BY <1>3 DEF Files, Only, TypeOK
<1>5. View' = [View EXCEPT ![req.slug] = [bundle |-> left, meta |-> before.meta[req.slug]]]
  BY <1>3, <1>4, ViewEdited
<1>6. View' = [View EXCEPT ![SlugOf[n]].bundle = left]
  <2>1. View' = [View EXCEPT ![req.slug].bundle = left]
    BY <1>3, <1>5 DEF View
  <2> QED
    BY <1>2, <2>1
<1>7. left \in {View[s].bundle, None} /\ before'.active = before.active
  BY <1>2, <1>3, <1>4
<1>8. Catalog!AbortRename(s, n)
  BY <1>2, <1>6, <1>7 DEF Catalog!AbortRename, View
<1> QED
  BY <1>8 DEF Catalog!CCutShort

(* The new files are complete: what is left of the old ones, and whether   *)
(* the marker has moved, tells a whole rename from a cut-short one.        *)
LEMMA RenameEnds ==
    ASSUME TypeOK, OpFacts, Tracks, TypeOK',
           step \in {"renameOldBundle", "renameOldMeta", "renameActive"},
           before' = Files',
           bundleFile'[req.slug] = bundleFile[req.slug],
           metaFile'[req.slug] = metaFile[req.slug],
           bundleFile'[req.old] \in {bundleFile[req.old], None},
           metaFile'[req.old] \in {metaFile[req.old], None},
           \A q \in Slugs \ {req.slug, req.old} :
             bundleFile'[q] = bundleFile[q] /\ metaFile'[q] = metaFile[q],
           activeFile' \in {activeFile, IF activeFile = req.old THEN req.slug ELSE activeFile}
    PROVE  /\ Catalog!CCutShort
           /\ (/\ bundleFile'[req.old] = None /\ metaFile'[req.old] = None
               /\ activeFile' = IF activeFile = req.old THEN req.slug ELSE activeFile)
              => Catalog!CWhole
<1> DEFINE b == bundleFile'[req.old]
           m == metaFile'[req.old]
<1>1. PICK s \in Slugs, n \in Names : s = req.old /\ n = req.meta.name
  BY RenameArguments DEF RenameSteps
<1>2. /\ Catalog!CanRename(s, n)
      /\ SlugOf[n] = req.slug
      /\ View[s] = [bundle |-> req.bundle, meta |-> before.meta[s]]
      /\ [View[s] EXCEPT !.meta.name = n] = [bundle |-> req.bundle, meta |-> req.meta]
  BY <1>1, RenameChecked DEF RenameSteps
<1>3. /\ req.slug \in Slugs /\ req.slug # s
      /\ metaFile[req.slug] = req.meta /\ bundleFile[req.slug] = req.bundle
      /\ bundleFile[s] \in {before.bundle[s], None}
      /\ metaFile[s] \in {before.meta[s], None}
      /\ activeFile = before.active
      /\ \A q \in Slugs \ {req.slug, s} :
           bundleFile[q] = before.bundle[q] /\ metaFile[q] = before.meta[q]
  BY <1>1 DEF OpFacts, RenameFacts, Tracks, TracksRename, RenameSteps
<1>4. before'.bundle = bundleFile' /\ before'.meta = metaFile' /\ before'.active = activeFile'
  BY DEF Files
<1>5. View' = [View EXCEPT ![req.slug] = [bundle |-> req.bundle, meta |-> req.meta],
                           ![s] = [bundle |-> b, meta |-> m]]
  BY <1>1, <1>3, <1>4, ViewEditedTwice
<1>6. View' = [View EXCEPT ![SlugOf[n]] = [View[s] EXCEPT !.meta.name = n],
                           ![s] = [bundle |-> b, meta |-> m]]
  BY <1>2, <1>5
<1>7. /\ b \in {View[s].bundle, None} /\ m \in {View[s].meta, None}
      /\ before'.active \in {before.active,
                             IF before.active = s THEN SlugOf[n] ELSE before.active}
  BY <1>1, <1>2, <1>3, <1>4 DEF View
<1>8. Catalog!AbortRename(s, n)
  BY <1>2, <1>6, <1>7 DEF Catalog!AbortRename, View
<1>9. ASSUME b = None, m = None,
             activeFile' = IF activeFile = req.old THEN req.slug ELSE activeFile
      PROVE  Catalog!Rename(s, n)
  BY <1>1, <1>2, <1>3, <1>4, <1>6, <1>9 DEF Catalog!Rename, Catalog!Absent, View
<1> QED
  BY <1>8, <1>9 DEF Catalog!CCutShort, Catalog!CWhole

(* The operations that are one write. *)
LEMMA SingleDone ==
    ASSUME TypeOK, Tracks,
           \/ \E s \in Slugs, n \in Names : RenameInPlace(s, n)
           \/ \E s \in Slugs \cup {None} : SetActive(s)
           \/ \E s \in Slugs, m \in Modes : UpdateMode(s, m)
           \/ \E s \in Slugs, i \in Intents \cup {None} : UpdateRosenpass(s, i)
    PROVE  Catalog!CWhole
<1>1. /\ before.bundle = bundleFile /\ before.meta = metaFile /\ before.active = activeFile
      /\ before' = Files'
  BY DEF Tracks, RenameInPlace, SetActive, UpdateMode, UpdateRosenpass, Single, Files
<1>2. before'.bundle = bundleFile' /\ before'.meta = metaFile' /\ before'.active = activeFile'
  BY <1>1 DEF Files
<1>3. \A s \in Slugs : View[s].meta = metaFile[s]
  BY <1>1 DEF View
<1>4. ASSUME NEW s \in Slugs, NEW x, UNCHANGED <<bundleFile, activeFile>>,
             metaFile' = [metaFile EXCEPT ![s] = x]
      PROVE  View' = [View EXCEPT ![s].meta = x] /\ before'.active = before.active
  <2>1. /\ Only(before'.bundle, before.bundle, s, bundleFile[s])
        /\ Only(before'.meta, before.meta, s, x)
    BY <1>1, <1>2, <1>4 DEF Only, TypeOK
  <2>2. View' = [View EXCEPT ![s] = [bundle |-> bundleFile[s], meta |-> x]]
    BY <2>1, ViewEdited
  <2>3. [View[s] EXCEPT !.meta = x] = [bundle |-> bundleFile[s], meta |-> x]
    BY <1>1 DEF View
  <2> QED
    BY <1>1, <1>2, <1>4, <2>2, <2>3
<1>5. ASSUME NEW s \in Slugs, NEW n \in Names, RenameInPlace(s, n) PROVE Catalog!CWhole
  <2>1. View' = [View EXCEPT ![s].meta.name = n] /\ before'.active = before.active
    <3> DEFINE x == [metaFile[s] EXCEPT !.name = n]
    <3>1. metaFile' = [metaFile EXCEPT ![s] = x] /\ UNCHANGED <<bundleFile, activeFile>>
      BY <1>5 DEF RenameInPlace
    <3>2. View' = [View EXCEPT ![s].meta = x] /\ before'.active = before.active
      BY <1>4, <3>1
    <3>3. View[s].meta = metaFile[s]
      BY <1>3
    <3> QED
      BY <3>2, <3>3
  <2>2. Catalog!RenameInPlace(s, n)
    BY <1>3, <1>5, <2>1 DEF RenameInPlace, Installed,
                            Catalog!RenameInPlace, Catalog!Installed, View
  <2> QED
    BY <2>2 DEF Catalog!CWhole
<1>6. ASSUME NEW s \in Slugs \cup {None}, SetActive(s) PROVE Catalog!CWhole
  <2>1. View' = View /\ before'.active = s
    BY <1>1, <1>2, <1>6 DEF SetActive, View
  <2>2. Catalog!SetActive(s)
    BY <1>3, <1>6, <2>1 DEF SetActive, Installed, Catalog!SetActive, Catalog!Installed, View
  <2> QED
    BY <2>2 DEF Catalog!CWhole
<1>7. ASSUME NEW s \in Slugs, NEW m \in Modes, UpdateMode(s, m) PROVE Catalog!CWhole
  <2>1. View' = [View EXCEPT ![s].meta.mode = m] /\ before'.active = before.active
    <3> DEFINE x == [metaFile[s] EXCEPT !.mode = m]
    <3>1. metaFile' = [metaFile EXCEPT ![s] = x] /\ UNCHANGED <<bundleFile, activeFile>>
      BY <1>7 DEF UpdateMode, WithMode
    <3>2. View' = [View EXCEPT ![s].meta = x] /\ before'.active = before.active
      BY <1>4, <3>1
    <3>3. View[s].meta = metaFile[s]
      BY <1>3
    <3> QED
      BY <3>2, <3>3
  <2>2. Catalog!UpdateMode(s, m)
    BY <1>3, <1>7, <2>1 DEF UpdateMode, Installed,
                            Catalog!UpdateMode, Catalog!Installed, View
  <2> QED
    BY <2>2 DEF Catalog!CWhole
<1>8. ASSUME NEW s \in Slugs, NEW i \in Intents \cup {None}, UpdateRosenpass(s, i)
      PROVE  Catalog!CWhole
  <2>1. View' = [View EXCEPT ![s].meta.rosenpass = i] /\ before'.active = before.active
    <3> DEFINE x == [metaFile[s] EXCEPT !.rosenpass = i]
    <3>1. metaFile' = [metaFile EXCEPT ![s] = x] /\ UNCHANGED <<bundleFile, activeFile>>
      BY <1>8 DEF UpdateRosenpass
    <3>2. View' = [View EXCEPT ![s].meta = x] /\ before'.active = before.active
      BY <1>4, <3>1
    <3>3. View[s].meta = metaFile[s]
      BY <1>3
    <3> QED
      BY <3>2, <3>3
  <2>2. Catalog!UpdateRosenpass(s, i)
    BY <1>3, <1>8, <2>1 DEF UpdateRosenpass, Installed,
                            Catalog!UpdateRosenpass, Catalog!Installed, View
  <2> QED
    BY <2>2 DEF Catalog!CWhole
<1> QED
  BY <1>5, <1>6, <1>7, <1>8

(***************************************************************************)
(* Every step of the store is a step of the catalogue, or is not seen in   *)
(* it; and a whole operation of the catalogue unless a fault has happened. *)
(***************************************************************************)
Shows(whole) == Catalog!CWhole \/ (~whole /\ Catalog!CCutShort) \/ UNCHANGED before

LEMMA StepsAreShown ==
    ASSUME TypeOK, OpFacts, CleanInv, Tracks, [Next]_vars, TypeOK'
    PROVE  Shows(~faulted')
<1>1. ASSUME NEW n \in Names, NEW m \in Modes, NEW b \in Bundles, NEW r \in BOOLEAN,
             AddWriteBundle(n, m, b, r)
      PROVE UNCHANGED before
  BY <1>1 DEF AddWriteBundle, Begin
<1>2. ASSUME NEW s \in Slugs, RemoveMeta(s) PROVE UNCHANGED before
  BY <1>2 DEF RemoveMeta, Begin
<1>3. ASSUME NEW s \in Slugs, NEW n \in Names, RenameWriteBundle(s, n)
      PROVE UNCHANGED before
  BY <1>3 DEF RenameWriteBundle, Begin
<1>4. ASSUME \/ \E s \in Slugs, n \in Names : RenameInPlace(s, n)
             \/ \E s \in Slugs \cup {None} : SetActive(s)
             \/ \E s \in Slugs, m \in Modes : UpdateMode(s, m)
             \/ \E s \in Slugs, i \in Intents \cup {None} : UpdateRosenpass(s, i)
      PROVE  Catalog!CWhole
  BY <1>4, SingleDone
<1>5. ASSUME NEW ok \in IoOutcome, AddWriteMeta(ok)
      PROVE  Catalog!CWhole \/ UNCHANGED before
  BY <1>5, AddDone DEF AddWriteMeta, Continue
<1>6. ASSUME NEW ok \in IoOutcome, AddRollback(ok)
      PROVE  Catalog!CCutShort /\ faulted'
  <2>1. faulted
    BY <1>6 DEF AddRollback, CleanInv
  <2>2. Catalog!CCutShort
    BY <1>6, AddCut DEF AddRollback, Continue
  <2> QED
    BY <1>6, <2>1, <2>2 DEF AddRollback
<1>7. ASSUME NEW ok \in IoOutcome, RemoveBundle(ok)
      PROVE  Catalog!CWhole \/ (Catalog!CCutShort /\ faulted') \/ UNCHANGED before
  <2>1. CASE ok /\ activeFile = req.slug
    BY <1>7, <2>1 DEF RemoveBundle, Continue, MarkerNames
  <2>2. CASE ok /\ activeFile # req.slug
    <3>1. before' = Files' /\ UNCHANGED metaFile /\ activeFile' = activeFile
      BY <1>7, <2>2 DEF RemoveBundle, Continue, MarkerNames
    <3>2. bundleFile' = [bundleFile EXCEPT ![req.slug] = None] /\ req.slug \in Slugs
      BY <1>7, <2>2 DEF RemoveBundle, OpFacts, RemoveFacts
    <3>3. /\ bundleFile'[req.slug] = None
          /\ \A q \in Slugs \ {req.slug} : bundleFile'[q] = bundleFile[q]
      BY <3>2 DEF TypeOK
    <3> QED
      BY <1>7, <2>2, <3>1, <3>3, RemoveDone DEF RemoveBundle
  <2>3. CASE ~ok
    BY <1>7, <2>3, RemoveCut DEF RemoveBundle, Continue
  <2> QED
    BY <2>1, <2>2, <2>3
<1>8. ASSUME NEW ok \in IoOutcome, RemoveActive(ok)
      PROVE  Catalog!CWhole \/ (Catalog!CCutShort /\ faulted')
  <2>1. /\ before' = Files' /\ UNCHANGED <<bundleFile, metaFile>>
        /\ activeFile = req.slug /\ bundleFile[req.slug] = None
    BY <1>8 DEF RemoveActive, Continue, OpFacts, RemoveFacts
  <2>2. CASE ok
    BY <1>8, <2>1, <2>2, RemoveDone DEF RemoveActive
  <2>3. CASE ~ok
    BY <1>8, <2>1, <2>3, RemoveCut DEF RemoveActive
  <2> QED
    BY <2>2, <2>3
<1>9. ASSUME NEW ok \in IoOutcome, RenameWriteMeta(ok) \/ RenameOldBundle(ok)
      PROVE  UNCHANGED before
  BY <1>9 DEF RenameWriteMeta, RenameOldBundle, Continue
<1>10. ASSUME NEW ok \in IoOutcome, RenameRollback(ok)
       PROVE  Catalog!CCutShort /\ faulted'
  <2>1. faulted
    BY <1>10 DEF RenameRollback, CleanInv
  <2>2. Catalog!CCutShort
    BY <1>10, RenameCutEarly DEF RenameRollback, Continue
  <2> QED
    BY <1>10, <2>1, <2>2 DEF RenameRollback
<1>11. ASSUME NEW ok \in IoOutcome, RenameOldMeta(ok)
       PROVE  Catalog!CWhole \/ (Catalog!CCutShort /\ faulted') \/ UNCHANGED before
  <2>1. CASE activeFile = req.old
    BY <1>11, <2>1 DEF RenameOldMeta, Continue, MarkerNames
  <2>2. CASE activeFile # req.old
    <3>1. /\ step = "renameOldMeta" /\ before' = Files'
          /\ UNCHANGED <<bundleFile, activeFile>>
          /\ faulted' = (faulted \/ ~ok)
          /\ metaFile' = IF ok THEN [metaFile EXCEPT ![req.old] = None] ELSE metaFile
      BY <1>11, <2>2 DEF RenameOldMeta, Continue, MarkerNames
    <3>2. req.slug \in Slugs /\ req.old \in Slugs /\ req.slug # req.old
      BY <3>1 DEF OpFacts, RenameFacts, RenameSteps
    <3>3. /\ metaFile'[req.slug] = metaFile[req.slug]
          /\ metaFile'[req.old] \in {metaFile[req.old], None}
          /\ \A q \in Slugs \ {req.slug, req.old} : metaFile'[q] = metaFile[q]
          /\ ok => metaFile'[req.old] = None
      BY <3>1, <3>2 DEF TypeOK
    <3>4. ~faulted => bundleFile[req.old] = None
      BY <3>1 DEF CleanInv
    <3> QED
      BY <2>2, <3>1, <3>2, <3>3, <3>4, RenameEnds
  <2> QED
    BY <2>1, <2>2
<1>12. ASSUME NEW ok \in IoOutcome, RenameActive(ok)
       PROVE  Catalog!CWhole \/ (Catalog!CCutShort /\ faulted')
  <2>1. /\ step = "renameActive" /\ before' = Files'
        /\ UNCHANGED <<bundleFile, metaFile>>
        /\ faulted' = (faulted \/ ~ok)
        /\ activeFile' = IF ok THEN req.slug ELSE activeFile
    BY <1>12 DEF RenameActive, Continue
  <2>2. activeFile = req.old
    BY <2>1 DEF OpFacts, RenameFacts, RenameSteps
  <2>3. ~faulted => bundleFile[req.old] = None /\ metaFile[req.old] = None
    BY <2>1 DEF CleanInv
  <2> QED
    BY <2>1, <2>2, <2>3, RenameEnds
<1>13. CASE Crash
  <2>1. /\ before' = Files' /\ UNCHANGED <<bundleFile, metaFile, activeFile>>
        /\ step \in Steps \ {"idle"} /\ faulted'
    BY <1>13 DEF Crash, Files, TypeOK
  <2>2. CASE step \in {"addMeta", "addRollback"}
    BY <2>1, <2>2, AddCut DEF Shows
  <2>3. CASE step \in {"removeBundle", "removeActive"}
    BY <2>1, <2>3, RemoveCut DEF Shows
  <2>4. CASE step \in {"renameMeta", "renameRollback"}
    BY <2>1, <2>4, RenameCutEarly DEF Shows
  <2>5. CASE step \in {"renameOldBundle", "renameOldMeta", "renameActive"}
    BY <2>1, <2>5, RenameEnds DEF Shows
  <2> QED
    BY <2>1, <2>2, <2>3, <2>4, <2>5 DEF Steps, Shows
<1>14. CASE UNCHANGED vars
  BY <1>14 DEF vars, Shows
<1> QED
  BY <1>1, <1>2, <1>3, <1>4, <1>5, <1>6, <1>7, <1>8, <1>9, <1>10, <1>11, <1>12,
     <1>13, <1>14 DEF Next, Shows

LEMMA TracksAlways == Spec => [](TypeOK /\ OpFacts /\ CleanInv /\ Tracks)
<1>1. Init => CleanInv /\ Tracks
  BY DEF Init, CleanInv, NoReq, Installed, Tracks, TracksAdd, TracksRemove, TracksRename,
         RenameSteps
<1>2. TypeOK /\ OpFacts /\ CleanInv /\ Tracks /\ [Next]_vars => (CleanInv /\ Tracks)'
  BY NextClean, NextTracks
<1> QED
  BY <1>1, <1>2, TypeCorrect, PTL DEF Spec

(* The store implements the catalogue: seen through the lock, whatever     *)
(* fails and wherever the process dies, every operation is one step of the *)
(* catalogue, whole or cut short in one of the ways the catalogue allows.  *)
THEOREM StoreImplementsCatalog == Spec => ImplementsCatalog
<1>1. Init => Catalog!CInit
  BY DEF Init, Files, Catalog!CInit, Catalog!Absent
<1>2. Shows(~faulted') => [Catalog!CNext]_(Catalog!cvars)
  BY DEF Shows, Catalog!CNext, Catalog!cvars
<1>3. /\ TypeOK /\ OpFacts /\ CleanInv /\ Tracks /\ TypeOK'
      /\ [Next]_vars
      => [Catalog!CNext]_(Catalog!cvars)
  BY <1>2, StepsAreShown
<1> QED
  BY <1>1, <1>3, TracksAlways, PTL DEF Spec, ImplementsCatalog, Catalog!CSpec

(* Until the first fault every change of the catalogue is a whole          *)
(* operation: none leaves a marker, a bundle or a meta behind.             *)
THEOREM WholeOperations == Spec => WholeUntilFault
<1>1. /\ TypeOK /\ OpFacts /\ CleanInv /\ Tracks /\ TypeOK'
      /\ [Next]_vars
      => [~faulted' => (Catalog!CWhole \/ UNCHANGED Catalog!cvars)]_vars
  BY StepsAreShown DEF Shows, Catalog!cvars
<1> QED
  BY <1>1, TracksAlways, PTL DEF Spec, WholeUntilFault
=============================================================================

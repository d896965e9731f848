------------------------ MODULE DaemonProfilesProofs ------------------------
(***************************************************************************)
(* The safety properties of DaemonProfiles for any number of connections,  *)
(* any sets of slugs, names, bundles, modes and overrides, and any number  *)
(* of edits of config.toml.                                                *)
(***************************************************************************)
EXTENDS DaemonProfiles, TLAPS

USE CatalogAssumption, DaemonAssumption

ImportSteps == {"importList", "importReplace", "importAdopt", "importDefault",
                "importDefaultReplace", "importActivate", "importAdoptSlug"}
SlugSteps == {"importList", "importReplace", "importAdopt", "switchLoad", "switchAdopt",
              "switchMark", "removeClear", "removeStore", "renameCheck", "renameSlug",
              "modeMeta", "rosenpassMeta"}

(***************************************************************************)
(* The catalogue as the daemon's operations leave it: a profile that is    *)
(* listed or marked active but does not load was torn by one cut short.    *)
(***************************************************************************)
CatalogInv ==
    /\ catalog \in [Slugs -> Entry] /\ active \in Slugs \cup {None} /\ torn \subseteq Slugs
    /\ \A s \in Slugs : /\ catalog[s].bundle # None => catalog[s].bundle \in Trusted
                        /\ Installed(s) => /\ Loadable(s) \/ s \in torn
                                           /\ SlugOf[catalog[s].meta.name] = s
    /\ active # None => Loadable(active) \/ active \in torn

(* The daemon's memory; the mode is unset only while there is no process. *)
MemInv ==
    /\ phase \in {"down", "loaded", "migrating", "serving"}
    /\ curSlug \in Slugs \cup {None}
    /\ curBundle \in Trusted \cup {None}
    /\ phase # "down" => curMode \in Modes
    /\ phase = "down" => curMode \in Modes \cup {None}
    /\ override \in Intents \cup {None}
    /\ flag \in FlagModes \cup {None}

FileInv ==
    /\ config \in [ok : BOOLEAN, mode : Modes \cup {None}, dns : 0..MaxEdits]
    /\ edits \in 0..MaxEdits /\ persisted \in 0..MaxEdits

(* What the locals l of a handler that stands at "at" hold, whatever the   *)
(* other handlers do meanwhile.                                            *)
Fits(at, l) ==
    /\ at \in Positions /\ l \in Locals
    /\ at \in ImportSteps => l.bundle \in Trusted /\ l.mode \in Modes
    /\ at \in SlugSteps => l.slug \in Slugs
    /\ at = "importReplace" => l.name \in Names /\ SlugOf[l.name] = l.slug
    /\ at = "switchAdopt" => l.bundle \in Trusted /\ l.mode \in Modes
    /\ at \in {"renameCheck", "renameSlug"} => l.name \in Names /\ SlugOf[l.name] \in Slugs
    /\ at \in {"modeRead", "modeMeta", "modeSave"} => l.mode \in Modes
    /\ at = "rosenpassMeta" => l.rosenpass \in Intents

HandlersInv ==
    /\ pc \in [Conns -> Positions] /\ loc \in [Conns -> Locals]
    /\ \A c \in Conns : Fits(pc[c], loc[c])
    /\ disturbed \in BOOLEAN /\ stale \in BOOLEAN /\ unadopted \in BOOLEAN

SafeInv == CatalogInv /\ MemInv /\ FileInv /\ HandlersInv

KeysInv == persisted <= edits /\ config.dns <= edits /\ OperatorKeysSurvive

(***************************************************************************)
(* What is known while nothing was disturbed: at most one handler is at    *)
(* work, and how far it has got tells how memory and marker differ.        *)
(***************************************************************************)
Calm == phase = "serving" /\ ~disturbed
AllIdle == \A c \in Conns : pc[c] = "idle"
Alone == \A c, d \in Conns : pc[c] # "idle" /\ pc[d] # "idle" => c = d

Marked == active # None /\ Installed(active)

(* Memory follows the marker, or start-up found nothing to adopt. *)
Follows ==
    \/ curSlug = active /\ (active = None \/ Marked)
    \/ curSlug = None /\ unadopted

Track(c) ==
    /\ pc[c] \in {"importList", "importReplace", "importAdopt"} =>
          curSlug = active /\ loc[c].slug = active /\ Marked
    /\ pc[c] \in {"importDefault", "importDefaultReplace", "importActivate"} =>
          curSlug = None /\ Follows
    /\ pc[c] = "importAdoptSlug" => active = DefaultSlug /\ Marked
    /\ pc[c] = "switchLoad" => Follows
    /\ pc[c] = "switchAdopt" =>
          /\ Installed(loc[c].slug)
          /\ loc[c].bundle = catalog[loc[c].slug].bundle
          /\ loc[c].mode = catalog[loc[c].slug].meta.mode
    /\ pc[c] = "switchMark" => curSlug = loc[c].slug /\ Installed(loc[c].slug)
    /\ pc[c] = "removeClear" => curSlug = active /\ loc[c].slug = active /\ Marked
    /\ pc[c] = "removeStore" =>
          \/ Follows /\ loc[c].slug # curSlug
          \/ curSlug = None /\ loc[c].slug = active /\ Marked
    /\ pc[c] = "renameCheck" =>
          IF curSlug = loc[c].slug THEN active = SlugOf[loc[c].name] /\ Marked ELSE Follows
    /\ pc[c] = "renameSlug" =>
          curSlug = loc[c].slug /\ active = SlugOf[loc[c].name] /\ Marked
    /\ pc[c] \in {"modeRead", "modeMeta", "modeSave", "rosenpassMeta"} => Follows

MarkerInv ==
    /\ phase # "serving" =>
          AllIdle /\ curSlug = None /\ curBundle = None /\ ~disturbed /\ ~stale
    /\ phase = "migrating" => Installed(DefaultSlug)
    /\ Calm => /\ Alone
               /\ AllIdle => Follows
               /\ \A c \in Conns : Track(c)

(***************************************************************************)
(* Likewise for the bundle and the mode, unless the files of the active    *)
(* profile were replaced under the daemon.                                 *)
(***************************************************************************)
ModeAgrees(s) == curMode \in {catalog[s].meta.mode} \cup ({flag} \ {None})
Agrees(s) == curBundle = catalog[s].bundle /\ ModeAgrees(s)

TrackDisk(c) ==
    /\ pc[c] \in {"importList", "switchLoad", "switchAdopt", "switchMark", "removeStore",
                  "modeSave", "rosenpassMeta"} =>
          (curSlug # None => Agrees(curSlug))
    /\ pc[c] = "importReplace" =>
          Agrees(curSlug) /\ loc[c].mode = catalog[curSlug].meta.mode
    /\ pc[c] = "importAdopt" =>
          catalog[curSlug].bundle = loc[c].bundle /\ ModeAgrees(curSlug)
    /\ pc[c] \in {"importDefault", "importDefaultReplace"} => loc[c].mode = curMode
    /\ pc[c] \in {"importActivate", "importAdoptSlug"} =>
          /\ catalog[DefaultSlug].bundle = loc[c].bundle
          /\ catalog[DefaultSlug].meta.mode = curMode
    /\ pc[c] = "renameCheck" =>
          IF curSlug = loc[c].slug THEN Agrees(SlugOf[loc[c].name])
          ELSE (curSlug # None => Agrees(curSlug))
    /\ pc[c] = "renameSlug" => Agrees(SlugOf[loc[c].name])
    /\ pc[c] \in {"modeRead", "modeMeta"} =>
          /\ loc[c].mode = curMode
          /\ curSlug # None => curBundle = catalog[curSlug].bundle
          /\ pc[c] = "modeMeta" => loc[c].slug = curSlug

DiskInv ==
    /\ phase \in {"loaded", "migrating"} /\ flag # None => curMode = flag
    /\ Calm /\ ~stale => /\ AllIdle /\ curSlug # None => Agrees(curSlug)
                         /\ \A c \in Conns : TrackDisk(c)
-----------------------------------------------------------------------------
(* What each operation of the catalogue does to one profile. *)

LEMMA AddEffect ==
    ASSUME CatalogInv, NEW n \in Names, NEW m \in Modes, NEW b \in Bundles, NEW r,
           Add(n, m, b, r)
    PROVE  /\ SlugOf[n] \in Slugs /\ b \in Trusted /\ active' = active
           /\ catalog' \in [Slugs -> Entry]
           /\ catalog'[SlugOf[n]].bundle = b
           /\ catalog'[SlugOf[n]].meta = FreshMeta(n, m)
           /\ FreshMeta(n, m) \in Meta /\ FreshMeta(n, m).name = n /\ FreshMeta(n, m).mode = m
           /\ catalog'[SlugOf[n]].meta.mode = m
           /\ \A t \in Slugs \ {SlugOf[n]} : catalog'[t] = catalog[t]
<1>1. SlugOf[n] \in Slugs /\ b \in Trusted /\ active' = active
  BY DEF Add, CanAdd, Signed
<1>2. /\ FreshMeta(n, m) \in Meta /\ FreshMeta(n, m).name = n /\ FreshMeta(n, m).mode = m
  BY DEF FreshMeta, Meta
<1>3. [bundle |-> b, meta |-> FreshMeta(n, m)] \in Entry
  BY <1>2 DEF Entry
<1> QED
  BY <1>1, <1>2, <1>3 DEF Add, CatalogInv

LEMMA AddStores ==
    ASSUME CatalogInv, NEW n \in Names, NEW m \in Modes, NEW b \in Bundles,
           Add(n, m, b, TRUE) \/ Add(n, m, b, FALSE)
    PROVE  catalog'[SlugOf[n]].bundle = b /\ catalog'[SlugOf[n]].meta.mode = m
<1>1. \E r : Add(n, m, b, r)
  BY Zenon
<1>2. PICK r : Add(n, m, b, r)
  BY <1>1
<1> QED
  BY <1>2, AddEffect

LEMMA RemoveEffect ==
    ASSUME CatalogInv, NEW s \in Slugs, Remove(s)
    PROVE  /\ catalog' \in [Slugs -> Entry]
           /\ catalog'[s].bundle = None /\ catalog'[s].meta = None
           /\ active' = IF active = s THEN None ELSE active
           /\ \A t \in Slugs \ {s} : catalog'[t] = catalog[t]
<1>1. Absent \in Entry /\ Absent.bundle = None /\ Absent.meta = None
  BY DEF Absent, Entry
<1> QED
  BY <1>1 DEF Remove, CatalogInv

LEMMA MetaEdits ==
    ASSUME NEW x \in Meta
    PROVE  /\ \A n \in Names : /\ [x EXCEPT !.name = n] \in Meta
                               /\ [x EXCEPT !.name = n].name = n
                               /\ [x EXCEPT !.name = n].mode = x.mode
           /\ \A m \in Modes : /\ [x EXCEPT !.mode = m] \in Meta
                               /\ [x EXCEPT !.mode = m].name = x.name
                               /\ [x EXCEPT !.mode = m].mode = m
           /\ \A i \in Intents \cup {None} : /\ [x EXCEPT !.rosenpass = i] \in Meta
                                             /\ [x EXCEPT !.rosenpass = i].name = x.name
                                             /\ [x EXCEPT !.rosenpass = i].mode = x.mode
BY DEF Meta

LEMMA EntryEdit ==
    ASSUME NEW e \in Entry, NEW x \in Meta
    PROVE  /\ [e EXCEPT !.meta = x] \in Entry
           /\ [e EXCEPT !.meta = x].bundle = e.bundle
           /\ [e EXCEPT !.meta = x].meta = x
BY DEF Entry

LEMMA RenameEffect ==
    ASSUME CatalogInv, NEW s \in Slugs, NEW n \in Names, Rename(s, n) \/ RenameInPlace(s, n)
    PROVE  /\ SlugOf[n] \in Slugs /\ Installed(s)
           /\ SlugOf[n] # s => ~Installed(SlugOf[n])
           /\ catalog' \in [Slugs -> Entry]
           /\ catalog'[SlugOf[n]].bundle = catalog[s].bundle
           /\ catalog'[SlugOf[n]].meta \in Meta /\ catalog'[SlugOf[n]].meta.name = n
           /\ catalog'[SlugOf[n]].meta.mode = catalog[s].meta.mode
           /\ SlugOf[n] # s => catalog'[s].bundle = None /\ catalog'[s].meta = None
           /\ active' = IF active = s THEN SlugOf[n] ELSE active
           /\ \A t \in Slugs \ {s, SlugOf[n]} : catalog'[t] = catalog[t]
<1>1. catalog[s] \in Entry /\ catalog[s].meta \in Meta /\ Installed(s) /\ SlugOf[n] \in Slugs
  BY DEF CatalogInv, Entry, Rename, RenameInPlace, CanRename, Installed, Loadable
<1> DEFINE x == [catalog[s].meta EXCEPT !.name = n]
           e == [catalog[s] EXCEPT !.meta = x]
<1>2. x \in Meta /\ x.name = n /\ x.mode = catalog[s].meta.mode
  BY <1>1, MetaEdits
<1>3. e \in Entry /\ e.bundle = catalog[s].bundle /\ e.meta = x
  BY <1>1, <1>2, EntryEdit
<1>4. Absent \in Entry /\ Absent.bundle = None /\ Absent.meta = None
  BY DEF Absent, Entry
<1>5. CASE Rename(s, n)
  <2>1. catalog' = [catalog EXCEPT ![SlugOf[n]] = e, ![s] = Absent]
    BY <1>5 DEF Rename
  <2>2. /\ SlugOf[n] # s /\ ~Installed(SlugOf[n])
        /\ active' = IF active = s THEN SlugOf[n] ELSE active
    BY <1>5 DEF Rename, CanRename
  <2> HIDE DEF e, x
  <2>3. /\ catalog' \in [Slugs -> Entry] /\ catalog'[SlugOf[n]] = e /\ catalog'[s] = Absent
        /\ \A t \in Slugs \ {s, SlugOf[n]} : catalog'[t] = catalog[t]
    BY <1>1, <1>3, <1>4, <2>1, <2>2 DEF CatalogInv
  <2> QED
    BY <1>1, <1>2, <1>3, <1>4, <2>2, <2>3
<1>6. CASE RenameInPlace(s, n)
  <2>1. catalog' = [catalog EXCEPT ![s] = e]
    BY <1>6 DEF RenameInPlace
  <2>2. SlugOf[n] = s /\ active' = active
    BY <1>6 DEF RenameInPlace
  <2> QED
    BY <1>1, <1>2, <1>3, <2>1, <2>2 DEF CatalogInv
<1> QED
  BY <1>5, <1>6

LEMMA MetaWrite ==
    ASSUME CatalogInv, NEW s \in Slugs, NEW x \in Meta,
           catalog' = [catalog EXCEPT ![s] = [catalog[s] EXCEPT !.meta = x]]
    PROVE  /\ catalog' \in [Slugs -> Entry]
           /\ catalog'[s].bundle = catalog[s].bundle
           /\ catalog'[s].meta = x
           /\ \A t \in Slugs \ {s} : catalog'[t] = catalog[t]
BY EntryEdit DEF CatalogInv

LEMMA UpdateModeEffect ==
    ASSUME CatalogInv, NEW s \in Slugs, NEW m \in Modes, UpdateMode(s, m)
    PROVE  /\ Installed(s) /\ active' = active
           /\ catalog' \in [Slugs -> Entry]
           /\ catalog'[s].bundle = catalog[s].bundle
           /\ catalog'[s].meta \in Meta /\ catalog'[s].meta.name = catalog[s].meta.name
           /\ catalog'[s].meta.mode = m
           /\ \A t \in Slugs \ {s} : catalog'[t] = catalog[t]
<1> DEFINE x == [catalog[s].meta EXCEPT !.mode = m]
<1>1. catalog[s].meta \in Meta /\ Installed(s) /\ active' = active
  BY DEF CatalogInv, Entry, UpdateMode, Installed
<1>2. x \in Meta /\ x.name = catalog[s].meta.name /\ x.mode = m
  BY <1>1, MetaEdits
<1>3. catalog' = [catalog EXCEPT ![s] = [catalog[s] EXCEPT !.meta = x]]
  BY DEF UpdateMode
<1> HIDE DEF x
<1> QED
  BY <1>1, <1>2, <1>3, MetaWrite

LEMMA UpdateRosenpassEffect ==
    ASSUME CatalogInv, NEW s \in Slugs, NEW i \in Intents \cup {None}, UpdateRosenpass(s, i)
    PROVE  /\ Installed(s) /\ active' = active
           /\ catalog' \in [Slugs -> Entry]
           /\ catalog'[s].bundle = catalog[s].bundle
           /\ catalog'[s].meta \in Meta /\ catalog'[s].meta.name = catalog[s].meta.name
           /\ catalog'[s].meta.mode = catalog[s].meta.mode
           /\ \A t \in Slugs \ {s} : catalog'[t] = catalog[t]
<1> DEFINE x == [catalog[s].meta EXCEPT !.rosenpass = i]
<1>1. catalog[s].meta \in Meta /\ Installed(s) /\ active' = active
  BY DEF CatalogInv, Entry, UpdateRosenpass, Installed
<1>2. x \in Meta /\ x.name = catalog[s].meta.name /\ x.mode = catalog[s].meta.mode
  BY <1>1, MetaEdits
<1>3. catalog' = [catalog EXCEPT ![s] = [catalog[s] EXCEPT !.meta = x]]
  BY DEF UpdateRosenpass
<1> HIDE DEF x
<1> QED
  BY <1>1, <1>2, <1>3, MetaWrite

(* What operations cut short do. *)
LEMMA AbortAddEffect ==
    ASSUME CatalogInv, NEW n \in Names, NEW b \in Bundles, NEW r, AbortAdd(n, b, r)
    PROVE  /\ SlugOf[n] \in Slugs /\ b \in Trusted /\ active' = active
           /\ catalog' \in [Slugs -> Entry]
           /\ catalog'[SlugOf[n]].bundle \in {b, None}
           /\ catalog'[SlugOf[n]].meta = catalog[SlugOf[n]].meta
           /\ \A t \in Slugs \ {SlugOf[n]} : catalog'[t] = catalog[t]
<1>1. SlugOf[n] \in Slugs /\ b \in Trusted /\ active' = active
  BY DEF AbortAdd, CanAdd, Signed
<1>2. PICK left \in {b, None} :
        catalog' = [catalog EXCEPT ![SlugOf[n]] = [catalog[SlugOf[n]] EXCEPT !.bundle = left]]
  BY DEF AbortAdd
<1>3. /\ [catalog[SlugOf[n]] EXCEPT !.bundle = left] \in Entry
      /\ [catalog[SlugOf[n]] EXCEPT !.bundle = left].bundle = left
      /\ [catalog[SlugOf[n]] EXCEPT !.bundle = left].meta = catalog[SlugOf[n]].meta
  BY <1>1 DEF CatalogInv, Entry
<1> QED
  BY <1>1, <1>2, <1>3 DEF CatalogInv

LEMMA AbortRemoveEffect ==
    ASSUME CatalogInv, NEW s \in Slugs, AbortRemove(s)
    PROVE  /\ active' = active /\ catalog' \in [Slugs -> Entry]
           /\ catalog'[s].bundle \in {catalog[s].bundle, None} /\ catalog'[s].meta = None
           /\ \A t \in Slugs \ {s} : catalog'[t] = catalog[t]
<1>1. PICK left \in {catalog[s].bundle, None} :
        catalog' = [catalog EXCEPT ![s] = [bundle |-> left, meta |-> None]]
  BY DEF AbortRemove
<1>2. [bundle |-> left, meta |-> None] \in Entry
  BY DEF CatalogInv, Entry
<1> QED
  BY <1>1, <1>2 DEF CatalogInv, AbortRemove

LEMMA AbortRenameEffect ==
    ASSUME CatalogInv, NEW s \in Slugs, NEW n \in Names, AbortRename(s, n)
    PROVE  /\ SlugOf[n] \in Slugs \ {s} /\ Loadable(s) /\ ~Installed(SlugOf[n])
           /\ catalog' \in [Slugs -> Entry]
           /\ catalog'[SlugOf[n]].bundle \in {catalog[s].bundle, None}
           /\ catalog'[s].bundle \in {catalog[s].bundle, None}
           /\ catalog'[s].meta \in {catalog[s].meta, None}
           /\ \/ catalog'[SlugOf[n]].meta = None /\ active' = active
              \/ /\ catalog'[SlugOf[n]].meta \in Meta /\ catalog'[SlugOf[n]].meta.name = n
                 /\ catalog'[SlugOf[n]].bundle = catalog[s].bundle
                 /\ active' \in {active, IF active = s THEN SlugOf[n] ELSE active}
           /\ \A t \in Slugs \ {s, SlugOf[n]} : catalog'[t] = catalog[t]
<1>1. /\ SlugOf[n] \in Slugs /\ SlugOf[n] # s /\ Loadable(s) /\ ~Installed(SlugOf[n])
      /\ catalog[s] \in Entry /\ catalog[s].meta \in Meta /\ catalog[SlugOf[n]] \in Entry
  BY DEF CatalogInv, Entry, AbortRename, CanRename, Loadable
<1> DEFINE x == [catalog[s].meta EXCEPT !.name = n]
           e == [catalog[s] EXCEPT !.meta = x]
           d == catalog[SlugOf[n]]
<1>2. x \in Meta /\ x.name = n
  BY <1>1, MetaEdits
<1>3. e \in Entry /\ e.bundle = catalog[s].bundle /\ e.meta = x
  BY <1>1, <1>2, EntryEdit
<1>4. CASE /\ \E left \in {catalog[s].bundle, None} :
                 catalog' = [catalog EXCEPT ![SlugOf[n]] = [d EXCEPT !.bundle = left]]
           /\ active' = active
  <2>1. PICK left \in {catalog[s].bundle, None} :
          catalog' = [catalog EXCEPT ![SlugOf[n]] = [d EXCEPT !.bundle = left]]
    BY <1>4
  <2>2. /\ [d EXCEPT !.bundle = left] \in Entry
        /\ [d EXCEPT !.bundle = left].bundle = left /\ [d EXCEPT !.bundle = left].meta = d.meta
    BY <1>1 DEF Entry
  <2>3. d.meta = None
    BY <1>1 DEF Installed
  <2> HIDE DEF d
  <2>4. /\ catalog' \in [Slugs -> Entry] /\ catalog'[SlugOf[n]].bundle = left
        /\ catalog'[SlugOf[n]].meta = None
        /\ \A t \in Slugs \ {SlugOf[n]} : catalog'[t] = catalog[t]
    BY <1>1, <2>1, <2>2, <2>3 DEF CatalogInv
  <2> QED
    BY <1>1, <1>4, <2>4
<1>5. CASE /\ \E oldBundle \in {catalog[s].bundle, None},
                 oldMeta \in {catalog[s].meta, None} :
                 catalog' = [catalog EXCEPT
                               ![SlugOf[n]] = e,
                               ![s] = [bundle |-> oldBundle, meta |-> oldMeta]]
           /\ active' \in {active, IF active = s THEN SlugOf[n] ELSE active}
  <2>1. PICK oldBundle \in {catalog[s].bundle, None}, oldMeta \in {catalog[s].meta, None} :
          catalog' = [catalog EXCEPT
                        ![SlugOf[n]] = e,
                        ![s] = [bundle |-> oldBundle, meta |-> oldMeta]]
    BY <1>5
  <2>2. [bundle |-> oldBundle, meta |-> oldMeta] \in Entry
    BY <1>1 DEF Entry
  <2> HIDE DEF e, x
  <2>3. /\ catalog' \in [Slugs -> Entry] /\ catalog'[SlugOf[n]] = e
        /\ catalog'[s].bundle = oldBundle /\ catalog'[s].meta = oldMeta
        /\ \A t \in Slugs \ {s, SlugOf[n]} : catalog'[t] = catalog[t]
    BY <1>1, <1>3, <2>1, <2>2 DEF CatalogInv
  <2> QED
    BY <1>1, <1>2, <1>3, <1>5, <2>3
<1> QED
  BY <1>4, <1>5 DEF AbortRename

(* Every operation of the catalogue, whole or cut short, keeps its         *)
(* invariant.                                                              *)
LEMMA OpsKeepCatalog ==
    ASSUME CatalogInv,
           \/ \E n \in Names, m \in Modes, b \in Bundles, r \in BOOLEAN :
                Add(n, m, b, r) /\ torn' = torn \ {SlugOf[n]}
           \/ \E s \in Slugs : Remove(s) /\ torn' = torn \ {s}
           \/ \E s \in Slugs, n \in Names : \/ Rename(s, n) /\ torn' = torn \ {s, SlugOf[n]}
                                            \/ RenameInPlace(s, n) /\ torn' = torn
           \/ \E s \in Slugs : SetActive(s) /\ torn' = torn
           \/ \E s \in Slugs, m \in Modes : UpdateMode(s, m) /\ torn' = torn
           \/ \E s \in Slugs, i \in Intents \cup {None} : UpdateRosenpass(s, i) /\ torn' = torn
           \/ \E n \in Names, b \in Bundles, r \in BOOLEAN : AddCutShort(n, b, r)
           \/ \E s \in Slugs : RemoveCutShort(s)
           \/ \E s \in Slugs, n \in Names : RenameCutShort(s, n)
           \/ UNCHANGED <<catalog, active, torn>>
    PROVE  CatalogInv'
<1>1. ASSUME NEW n \in Names, NEW m \in Modes, NEW b \in Bundles, NEW r \in BOOLEAN,
             Add(n, m, b, r), torn' = torn \ {SlugOf[n]}
      PROVE  CatalogInv'
  BY <1>1, AddEffect DEF CatalogInv, Installed, Loadable
<1>2. ASSUME NEW s \in Slugs, Remove(s), torn' = torn \ {s} PROVE CatalogInv'
  BY <1>2, RemoveEffect DEF CatalogInv, Installed, Loadable
<1>3. ASSUME NEW s \in Slugs, NEW n \in Names, Rename(s, n), torn' = torn \ {s, SlugOf[n]}
      PROVE  CatalogInv'
  <2>1. Loadable(s) /\ SlugOf[n] # s
    BY <1>3 DEF Rename, CanRename
  <2> QED
    BY <1>3, <2>1, RenameEffect DEF CatalogInv, Installed, Loadable
<1>4. ASSUME NEW s \in Slugs, NEW n \in Names, RenameInPlace(s, n), torn' = torn
      PROVE  CatalogInv'
  <2>1. SlugOf[n] = s
    BY <1>4 DEF RenameInPlace
  <2> QED
    BY <1>4, <2>1, RenameEffect DEF CatalogInv, Installed, Loadable
<1>5. ASSUME NEW s \in Slugs, SetActive(s), torn' = torn PROVE CatalogInv'
  BY <1>5 DEF CatalogInv, Installed, Loadable, SetActive
<1>6. ASSUME NEW s \in Slugs, NEW m \in Modes, UpdateMode(s, m), torn' = torn
      PROVE  CatalogInv'
  BY <1>6, UpdateModeEffect DEF CatalogInv, Installed, Loadable
<1>7. ASSUME NEW s \in Slugs, NEW i \in Intents \cup {None}, UpdateRosenpass(s, i),
             torn' = torn
      PROVE  CatalogInv'
  BY <1>7, UpdateRosenpassEffect DEF CatalogInv, Installed, Loadable
<1>8. ASSUME NEW n \in Names, NEW b \in Bundles, NEW r \in BOOLEAN, AddCutShort(n, b, r)
      PROVE  CatalogInv'
  <2>1. AbortAdd(n, b, r) /\ Tears(SlugOf[n])
    BY <1>8 DEF AddCutShort
  <2> QED
    BY <2>1, AbortAddEffect DEF CatalogInv, Installed, Loadable, Tears
<1>9. ASSUME NEW s \in Slugs, RemoveCutShort(s) PROVE CatalogInv'
  <2>1. AbortRemove(s) /\ Tears(s)
    BY <1>9 DEF RemoveCutShort
  <2> QED
    BY <2>1, AbortRemoveEffect DEF CatalogInv, Installed, Loadable, Tears
<1>10. ASSUME NEW s \in Slugs, NEW n \in Names, RenameCutShort(s, n) PROVE CatalogInv'
  <2>1. AbortRename(s, n) /\ Tears(s)
    BY <1>10 DEF RenameCutShort
  <2> QED
    BY <2>1, AbortRenameEffect DEF CatalogInv, Installed, Loadable, Tears
<1>11. CASE UNCHANGED <<catalog, active, torn>>
  BY <1>11 DEF CatalogInv, Installed, Loadable
<1> DEFINE
     AddOp == \E n \in Names, m \in Modes, b \in Bundles, r \in BOOLEAN :
                Add(n, m, b, r) /\ torn' = torn \ {SlugOf[n]}
     RemoveOp == \E s \in Slugs : Remove(s) /\ torn' = torn \ {s}
     RenameOp == \E s \in Slugs, n \in Names :
                   \/ Rename(s, n) /\ torn' = torn \ {s, SlugOf[n]}
                   \/ RenameInPlace(s, n) /\ torn' = torn
     SetActiveOp == \E s \in Slugs : SetActive(s) /\ torn' = torn
     ModeOp == \E s \in Slugs, m \in Modes : UpdateMode(s, m) /\ torn' = torn
     RosenpassOp == \E s \in Slugs, i \in Intents \cup {None} :
                      UpdateRosenpass(s, i) /\ torn' = torn
     AddCut == \E n \in Names, b \in Bundles, r \in BOOLEAN : AddCutShort(n, b, r)
     RemoveCut == \E s \in Slugs : RemoveCutShort(s)
     RenameCut == \E s \in Slugs, n \in Names : RenameCutShort(s, n)
<1>12. \/ AddOp \/ RemoveOp \/ RenameOp \/ SetActiveOp \/ ModeOp \/ RosenpassOp
       \/ AddCut \/ RemoveCut \/ RenameCut \/ UNCHANGED <<catalog, active, torn>>
  OBVIOUS
<1>13. AddOp \/ RemoveOp \/ RenameOp => CatalogInv'
  BY <1>1, <1>2, <1>3, <1>4
<1>14. SetActiveOp \/ ModeOp \/ RosenpassOp => CatalogInv'
  BY <1>5, <1>6, <1>7
<1>15. AddCut \/ RemoveCut \/ RenameCut => CatalogInv'
  BY <1>8, <1>9, <1>10
<1> HIDE DEF AddOp, RemoveOp, RenameOp, SetActiveOp, ModeOp, RosenpassOp, AddCut, RemoveCut,
             RenameCut
<1> QED
  BY <1>11, <1>12, <1>13, <1>14, <1>15

-----------------------------------------------------------------------------
(* SafeInv is inductive. *)

LEMMA NoLocTyped ==
    /\ NoLoc \in Locals /\ Fits("idle", NoLoc)
    /\ NoLoc.slug = None /\ NoLoc.name = None /\ NoLoc.mode = None
    /\ NoLoc.bundle = None /\ NoLoc.rosenpass = None
BY DEF NoLoc, Locals, Fits, Positions, ImportSteps, SlugSteps

(* A handler takes a step: the other connections keep their locals. *)
LEMMA HandlerMoves ==
    ASSUME HandlersInv, NEW c \in Conns, NEW at, NEW l, Fits(at, l),
           pc' = [pc EXCEPT ![c] = at], loc' = [loc EXCEPT ![c] = l],
           disturbed' \in BOOLEAN, stale' \in BOOLEAN, unadopted' \in BOOLEAN
    PROVE  HandlersInv'
<1>1. at \in Positions /\ l \in Locals
  BY DEF Fits
<1>2. pc' \in [Conns -> Positions] /\ loc' \in [Conns -> Locals]
  BY <1>1 DEF HandlersInv
<1>3. ASSUME NEW d \in Conns PROVE Fits(pc'[d], loc'[d])
  BY <1>1 DEF HandlersInv
<1> QED
  BY <1>2, <1>3 DEF HandlersInv

LEMMA InitSafe == Init => SafeInv
<1> SUFFICES ASSUME Init PROVE SafeInv
  OBVIOUS
<1>1. CatalogInv
  BY DEF Init, CInit, CatalogInv, Absent, Entry, Installed, Loadable
<1>2. MemInv
  BY DEF Init, MemInv
<1>3. [ok : {TRUE}, mode : Modes \cup {None}, dns : {0}]
        \subseteq [ok : BOOLEAN, mode : Modes \cup {None}, dns : 0..MaxEdits]
  <2>1. 0 \in 0..MaxEdits
    OBVIOUS
  <2> QED
    BY <2>1, Zenon
<1>4. FileInv
  <2>1. config \in [ok : {TRUE}, mode : Modes \cup {None}, dns : {0}] /\ edits = 0 /\ persisted = 0
    BY DEF Init
  <2> QED
    BY <1>3, <2>1 DEF FileInv
<1>5. HandlersInv
  BY NoLocTyped DEF Init, HandlersInv, Positions
<1> QED
  BY <1>1, <1>2, <1>4, <1>5 DEF SafeInv

LEMMA SafeImpliesType == SafeInv => TypeOK
BY DEF SafeInv, CatalogInv, MemInv, FileInv, HandlersInv, TypeOK

(* The operation a handler stands at, cut short. *)
LEMMA CutShortKeeps ==
    ASSUME SafeInv, NEW c \in Conns, CutShort(c) PROVE CatalogInv'
<1> DEFINE here == loc[c]
<1>0. Fits(pc[c], here) /\ CatalogInv
  BY DEF SafeInv, HandlersInv
<1> HIDE DEF here
<1>1. CASE pc[c] = "importReplace" /\ AddCutShort(here.name, here.bundle, TRUE)
  <2>1. here.name \in Names /\ here.bundle \in Bundles
    BY <1>0, <1>1 DEF Fits, ImportSteps
  <2> QED
    BY <1>0, <1>1, <2>1, OpsKeepCatalog, Zenon
<1>2. CASE /\ pc[c] \in {"importDefault", "importDefaultReplace"}
           /\ \E r \in BOOLEAN : AddCutShort(DefaultName, here.bundle, r)
  <2>1. here.bundle \in Bundles
    BY <1>0, <1>2 DEF Fits, ImportSteps
  <2> QED
    BY <1>0, <1>2, <2>1, OpsKeepCatalog, DaemonAssumption, Zenon
<1>3. CASE pc[c] = "removeStore" /\ RemoveCutShort(here.slug)
  <2>1. here.slug \in Slugs
    BY <1>0, <1>3 DEF Fits, SlugSteps
  <2> QED
    BY <1>0, <1>3, <2>1, OpsKeepCatalog, Zenon
<1> QED
  BY <1>1, <1>2, <1>3 DEF CutShort, here

LEMMA StartupSafe ==
    ASSUME SafeInv, Startup \/ Operator \/ Crash PROVE SafeInv'
<1> USE DEF SafeInv
<1>1. ASSUME NEW f \in FlagModes, Start(f) PROVE SafeInv'
  BY <1>1, OpsKeepCatalog
     DEF Start, Resolved, MemInv, FileInv, HandlersInv
<1>2. ASSUME BootActive PROVE SafeInv'
  <2>1. /\ catalog[active].bundle \in Trusted /\ catalog[active].meta.mode \in Modes
        /\ catalog[active].meta.rosenpass \in Intents \cup {None}
    BY <1>2 DEF BootActive, CatalogInv, Loadable, Entry, Meta
  <2> QED
    BY <1>2, <2>1, OpsKeepCatalog
       DEF BootActive, Adopt, MemInv, FileInv, HandlersInv, cmdline, CatalogInv
<1>3. ASSUME BootEmpty PROVE SafeInv'
  BY <1>3, OpsKeepCatalog DEF BootEmpty, MemInv, FileInv, HandlersInv, cmdline
<1>9. ASSUME MigrateFail PROVE SafeInv'
  <2>1. CatalogInv'
    BY <1>9, OpsKeepCatalog DEF MigrateFail, MayMigrate
  <2> QED
    BY <1>9, <2>1 DEF MigrateFail, MayMigrate, MemInv, FileInv, HandlersInv, cmdline
<1>4. ASSUME MigrateAdd PROVE SafeInv'
  <2>1. CatalogInv'
    BY <1>4, OpsKeepCatalog DEF MigrateAdd, MayMigrate, MemInv, DefaultSlug, Whole
  <2> QED
    BY <1>4, <2>1 DEF MigrateAdd, MayMigrate, MemInv, FileInv, HandlersInv, cmdline
<1>5. ASSUME MigrateSetActive PROVE SafeInv'
  <2>1. DefaultSlug \in Slugs /\ Installed(DefaultSlug)
    BY <1>5 DEF MigrateSetActive, SetActive, DefaultSlug
  <2>2. /\ catalog[DefaultSlug].bundle \in Trusted \cup {None}
        /\ catalog[DefaultSlug].meta.mode \in Modes
        /\ catalog[DefaultSlug].meta.rosenpass \in Intents \cup {None}
    BY <2>1 DEF CatalogInv, Installed, Entry, Meta
  <2>3. CatalogInv'
    BY <1>5, <2>1, OpsKeepCatalog DEF MigrateSetActive
  <2> QED
    BY <1>5, <2>1, <2>2, <2>3
       DEF MigrateSetActive, Adopt, MemInv, FileInv, HandlersInv, cmdline
<1>6. ASSUME Crash PROVE SafeInv'
  <2>1. CatalogInv'
    <3>1. CASE UNCHANGED <<catalog, active, torn>>
      BY <3>1, OpsKeepCatalog
    <3>2. CASE MayMigrate /\ AddCutShort(DefaultName, Legacy, FALSE)
      BY <3>2, OpsKeepCatalog DEF MayMigrate
    <3>3. ASSUME NEW c \in Conns, CutShort(c) PROVE CatalogInv'
      BY <3>3, CutShortKeeps
    <3>4. ASSUME NEW c \in Conns, CutShortAtEntry(c) PROVE CatalogInv'
      BY <3>4, OpsKeepCatalog, Zenon DEF CutShortAtEntry
    <3> QED
      BY <1>6, <3>1, <3>2, <3>3, <3>4 DEF Crash
  <2>3. MemInv' /\ FileInv'
    BY <1>6 DEF Crash, MemInv, FileInv
  <2>2. HandlersInv'
    BY <1>6, NoLocTyped DEF Crash, HandlersInv, Positions
  <2> QED
    BY <2>1, <2>2, <2>3
<1>7. ASSUME NEW ok \in BOOLEAN, EditConfig(ok) PROVE SafeInv'
  <2>1. CatalogInv' /\ MemInv' /\ HandlersInv'
    BY <1>7, OpsKeepCatalog DEF EditConfig, MemInv, HandlersInv, mem
  <2>2. edits + 1 \in 0..MaxEdits /\ (IF ok THEN config.mode ELSE None) \in Modes \cup {None}
    BY <1>7 DEF EditConfig, FileInv
  <2>3. FileInv'
    BY <1>7, <2>2 DEF EditConfig, FileInv
  <2> QED
    BY <2>1, <2>3
<1>8. ASSUME NEW m \in Modes \cup {None}, MendConfig(m) PROVE SafeInv'
  <2>1. CatalogInv' /\ MemInv' /\ HandlersInv'
    BY <1>8, OpsKeepCatalog DEF MendConfig, MemInv, HandlersInv, mem, cmdline
  <2>2. FileInv'
    BY <1>8 DEF MendConfig, FileInv, cmdline
  <2> QED
    BY <2>1, <2>2
<1> QED
  BY <1>1, <1>2, <1>3, <1>4, <1>5, <1>6, <1>7, <1>8, <1>9 DEF Startup, Operator

LEMMA RequestSafe ==
    ASSUME SafeInv, NEW c \in Conns, Request(c) PROVE SafeInv'
<1> USE DEF SafeInv
<1> USE NoLocTyped
<1>1. ASSUME NEW b \in Bundles, ImportRead(c, b) PROVE SafeInv'
  <2> DEFINE at == IF curSlug # None THEN "importList" ELSE "importDefault"
             l == [NoLoc EXCEPT !.slug = curSlug, !.mode = curMode, !.bundle = b]
  <2>1. Fits(at, l)
    BY <1>1 DEF ImportRead, Enter, MemInv, Fits, Locals, Positions, StoreWrites,
       ImportSteps, SlugSteps
  <2>2. Enter(c, at, l) /\ UNCHANGED <<catalog, active, torn>> /\ UNCHANGED <<mem, stale,
                                       unadopted>>
    BY <1>1 DEF ImportRead, mem
  <2> HIDE DEF at, l
  <2>3. CatalogInv'
    BY <2>2, OpsKeepCatalog
  <2>4. HandlersInv'
    BY <2>1, <2>2, HandlerMoves DEF Enter, HandlersInv
  <2> QED
    BY <2>2, <2>3, <2>4 DEF Enter, FlagAt, MemInv, FileInv, mem
<1>2. ASSUME NEW n \in Names, NEW m \in Modes, NEW b \in Bundles, NEW r \in BOOLEAN,
             NEW sa \in BOOLEAN, AddProfile(c, n, m, b, r, sa)
      PROVE  SafeInv'
  <2> DEFINE at == IF sa THEN "switchLoad" ELSE "idle"
             l == IF sa THEN [NoLoc EXCEPT !.slug = SlugOf[n]] ELSE NoLoc
  <2>1. SlugOf[n] \in Slugs
    BY <1>2 DEF AddProfile, Add, CanAdd
  <2>2. Fits(at, l)
    BY <2>1 DEF Fits, Locals, Positions, StoreWrites, ImportSteps, SlugSteps
  <2>3. Enter(c, at, l) /\ UNCHANGED <<mem, unadopted>> /\ stale' \in BOOLEAN
    BY <1>2 DEF AddProfile
  <2> HIDE DEF at, l
  <2>4. CatalogInv'
    <3>1. Add(n, m, b, r) /\ torn' = torn \ {SlugOf[n]}
      BY <1>2 DEF AddProfile, Whole
    <3> QED
      BY <3>1, OpsKeepCatalog
  <2>5. HandlersInv'
    BY <2>2, <2>3, HandlerMoves DEF Enter, HandlersInv
  <2> QED
    BY <2>3, <2>4, <2>5 DEF Enter, FlagAt, MemInv, FileInv, mem
<1>3. ASSUME NEW s \in Slugs, SetActiveProfile(c, s) PROVE SafeInv'
  <2> DEFINE l == [NoLoc EXCEPT !.slug = s]
  <2>1. Fits("switchLoad", l)
    BY DEF Fits, Locals, Positions, StoreWrites, ImportSteps, SlugSteps
  <2>2. /\ Enter(c, "switchLoad", l)
        /\ UNCHANGED <<catalog, active, torn>> /\ UNCHANGED <<mem, stale, unadopted>>
    BY <1>3 DEF SetActiveProfile, mem
  <2> HIDE DEF l
  <2>3. CatalogInv'
    BY <2>2, OpsKeepCatalog
  <2>4. HandlersInv'
    BY <2>1, <2>2, HandlerMoves DEF Enter, HandlersInv
  <2> QED
    BY <2>2, <2>3, <2>4 DEF Enter, FlagAt, MemInv, FileInv, mem
<1>4. ASSUME NEW s \in Slugs, RemoveProfile(c, s) PROVE SafeInv'
  <2> DEFINE at == IF s = curSlug THEN "removeClear" ELSE "removeStore"
             l == [NoLoc EXCEPT !.slug = s]
  <2>1. Fits(at, l)
    BY DEF Fits, Locals, Positions, StoreWrites, ImportSteps, SlugSteps
  <2>2. Enter(c, at, l) /\ UNCHANGED <<catalog, active, torn>> /\ UNCHANGED <<mem, stale,
                                       unadopted>>
    BY <1>4 DEF RemoveProfile, mem
  <2> HIDE DEF at, l
  <2>3. CatalogInv'
    BY <2>2, OpsKeepCatalog
  <2>4. HandlersInv'
    BY <2>1, <2>2, HandlerMoves DEF Enter, HandlersInv
  <2> QED
    BY <2>2, <2>3, <2>4 DEF Enter, FlagAt, MemInv, FileInv, mem
<1>5. ASSUME NEW s \in Slugs, NEW n \in Names, RenameProfile(c, s, n) PROVE SafeInv'
  <2> DEFINE l == [NoLoc EXCEPT !.slug = s, !.name = n]
  <2>1. SlugOf[n] \in Slugs
    BY <1>5 DEF RenameProfile, Rename, CanRename, RenameInPlace
  <2>2. Fits("renameCheck", l)
    BY <2>1 DEF Fits, Locals, Positions, StoreWrites, ImportSteps, SlugSteps
  <2>3. Enter(c, "renameCheck", l) /\ UNCHANGED <<mem, stale, unadopted>>
    BY <1>5 DEF RenameProfile, mem
  <2> HIDE DEF l
  <2>4. CatalogInv'
    BY <1>5, OpsKeepCatalog DEF RenameProfile, Whole
  <2>5. HandlersInv'
    BY <2>2, <2>3, HandlerMoves DEF Enter, HandlersInv
  <2> QED
    BY <2>3, <2>4, <2>5 DEF Enter, FlagAt, MemInv, FileInv, mem
<1>6. ASSUME NEW m \in Modes, SetMode(c, m) PROVE SafeInv'
  <2> DEFINE l == [NoLoc EXCEPT !.mode = m]
  <2>1. Fits("modeRead", l)
    BY DEF Fits, Locals, Positions, StoreWrites, ImportSteps, SlugSteps
  <2>2. /\ Enter(c, "modeRead", l) /\ curMode' = m
        /\ UNCHANGED <<catalog, active, torn>>
        /\ UNCHANGED <<curSlug, curBundle, override, stale, unadopted>>
    BY <1>6 DEF SetMode
  <2> HIDE DEF l
  <2>3. CatalogInv'
    BY <2>2, OpsKeepCatalog
  <2>4. HandlersInv'
    BY <2>1, <2>2, HandlerMoves DEF Enter, HandlersInv
  <2> QED
    BY <2>2, <2>3, <2>4 DEF Enter, FlagAt, MemInv, FileInv
<1>7. ASSUME NEW i \in Intents, SetRosenpass(c, i) PROVE SafeInv'
  <2> DEFINE at == IF curSlug # None THEN "rosenpassMeta" ELSE "idle"
             l == IF curSlug # None THEN [NoLoc EXCEPT !.slug = curSlug, !.rosenpass = i]
                                    ELSE NoLoc
  <2>1. Fits(at, l)
    BY DEF MemInv, Fits, Locals, Positions, StoreWrites, ImportSteps, SlugSteps
  <2>2. /\ Enter(c, at, l) /\ override' = i
        /\ UNCHANGED <<catalog, active, torn>>
        /\ UNCHANGED <<curSlug, curBundle, curMode, stale, unadopted>>
    BY <1>7 DEF SetRosenpass
  <2> HIDE DEF at, l
  <2>3. CatalogInv'
    BY <2>2, OpsKeepCatalog
  <2>4. HandlersInv'
    BY <2>1, <2>2, HandlerMoves DEF Enter, HandlersInv
  <2> QED
    BY <2>2, <2>3, <2>4 DEF Enter, FlagAt, MemInv, FileInv
<1>8. ASSUME NEW n \in Names, NEW b \in Bundles, NEW r \in BOOLEAN, AddProfileFails(c, n, b, r)
      PROVE  SafeInv'
  <2>1. CatalogInv'
    BY <1>8, OpsKeepCatalog, SMT DEF AddProfileFails
  <2>2. HandlersInv'
    BY <1>8, HandlerMoves DEF AddProfileFails, EnterFailing, HandlersInv
  <2> QED
    BY <1>8, <2>1, <2>2 DEF AddProfileFails, EnterFailing, MemInv, FileInv, mem, cmdline
<1>9. ASSUME NEW s \in Slugs, NEW n \in Names, RenameProfileFails(c, s, n) PROVE SafeInv'
  <2> DEFINE l == [NoLoc EXCEPT !.slug = s, !.name = n]
  <2>1. CatalogInv'
    BY <1>9, OpsKeepCatalog, Zenon DEF RenameProfileFails
  <2>2. SlugOf[n] \in Slugs
    BY <1>9 DEF RenameProfileFails, RenameCutShort, AbortRename, CanRename
  <2>3. Fits("renameCheck", l)
    BY <2>2 DEF Fits, Locals, Positions, StoreWrites, ImportSteps, SlugSteps
  <2>4. EnterFailing(c, "renameCheck", l) \/ EnterFailing(c, "idle", NoLoc)
    BY <1>9 DEF RenameProfileFails
  <2>5. UNCHANGED <<mem, stale, unadopted>>
    BY <1>9 DEF RenameProfileFails
  <2> HIDE DEF l
  <2>6. HandlersInv'
    BY <2>3, <2>4, <2>5, HandlerMoves DEF EnterFailing, HandlersInv
  <2> QED
    BY <2>1, <2>4, <2>5, <2>6 DEF EnterFailing, MemInv, FileInv, mem, cmdline
<1> QED
  BY <1>1, <1>2, <1>3, <1>4, <1>5, <1>6, <1>7, <1>8, <1>9 DEF Request

(* A section of a handler that leaves memory and config.toml alone. *)
LEMMA HandlerGoes ==
    ASSUME SafeInv, NEW c \in Conns, NEW from, NEW to, NEW l, Fits(to, l),
           Goto(c, from, to, l), UNCHANGED <<mem, config, stale, unadopted>>, CatalogInv'
    PROVE  SafeInv'
<1>1. HandlersInv'
  BY HandlerMoves DEF SafeInv, HandlersInv, Goto
<1> QED
  BY <1>1 DEF SafeInv, Goto, FlagAt, MemInv, FileInv, mem

LEMMA HandleSafe ==
    ASSUME SafeInv, NEW c \in Conns, Handle(c) PROVE SafeInv'
<1> DEFINE s == loc[c].slug
           here == loc[c]
<1>0. Fits(pc[c], here) /\ here \in Locals
  BY DEF SafeInv, HandlersInv
<1> HIDE DEF here
<1>a. CatalogInv /\ MemInv /\ FileInv /\ HandlersInv
  BY DEF SafeInv
<1>1. ASSUME ImportList(c) PROVE SafeInv'
  <2> DEFINE l == IF Installed(s)
                    THEN [here EXCEPT !.name = catalog[s].meta.name,
                                      !.mode = catalog[s].meta.mode]
                    ELSE [here EXCEPT !.name = SlugName[s]]
  <2>1. pc[c] = "importList" /\ s \in Slugs
    BY <1>1, <1>0 DEF ImportList, Goto, Fits, SlugSteps, here
  <2>2. Installed(s) => /\ catalog[s].meta.name \in Names /\ catalog[s].meta.mode \in Modes
                        /\ SlugOf[catalog[s].meta.name] = s
    BY <1>a, <2>1 DEF CatalogInv, Installed, Entry, Meta
  <2>3. Fits("importReplace", l)
    BY <1>0, <2>1, <2>2 DEF Fits, Locals, Positions, StoreWrites, ImportSteps, SlugSteps,
       here
  <2>4. /\ Goto(c, "importList", "importReplace", l)
        /\ UNCHANGED <<catalog, active, torn>> /\ UNCHANGED <<mem, config, stale, unadopted>>
    BY <1>1 DEF ImportList, mem, here
  <2> HIDE DEF l
  <2> QED
    BY <2>3, <2>4, HandlerGoes, OpsKeepCatalog, <1>a
<1>2. ASSUME ImportReplace(c) PROVE SafeInv'
  <2>1. pc[c] = "importReplace" /\ Fits("importAdopt", here)
    BY <1>2, <1>0 DEF ImportReplace, Goto, Fits, Locals, Positions, StoreWrites,
       ImportSteps, SlugSteps, here
  <2>2. Goto(c, "importReplace", "importAdopt", here) /\ UNCHANGED <<mem, config, stale,
                                                                     unadopted>>
    BY <1>2 DEF ImportReplace, mem, here
  <2>3. CatalogInv'
    BY <1>2, <1>a, <1>0, <2>1, OpsKeepCatalog DEF ImportReplace, Whole, Fits, Locals,
       Positions, StoreWrites, ImportSteps, SlugSteps, here
  <2> QED
    BY <2>1, <2>2, <2>3, HandlerGoes
<1>3. ASSUME ImportAdopt(c) PROVE SafeInv'
  <2>1. pc[c] = "importAdopt" /\ here.bundle \in Trusted
    BY <1>3, <1>0 DEF ImportAdopt, Return, Goto, Fits, ImportSteps, here
  <2>2. CatalogInv'
    BY <1>3, <1>a, OpsKeepCatalog DEF ImportAdopt
  <2>3. HandlersInv'
    BY <1>3, <1>a, NoLocTyped, HandlerMoves DEF ImportAdopt, Return, Goto, HandlersInv
  <2> QED
    BY <1>3, <1>a, <2>1, <2>2, <2>3
       DEF ImportAdopt, Return, Goto, FlagAt, SafeInv, MemInv, FileInv, here
<1>4. ASSUME ImportDefault(c) PROVE SafeInv'
  <2>1. /\ pc[c] = "importDefault" /\ Fits("importDefaultReplace", here)
        /\ Fits("importActivate", here)
    BY <1>4, <1>0 DEF ImportDefault, Goto, Fits, Locals, Positions, StoreWrites,
       ImportSteps, SlugSteps, here
  <2>2. CASE Installed(DefaultSlug)
    <3>1. /\ Goto(c, "importDefault", "importDefaultReplace", here)
          /\ UNCHANGED <<catalog, active, torn>> /\ UNCHANGED <<mem, config, stale,
                         unadopted>>
      BY <1>4, <2>2 DEF ImportDefault, mem, here
    <3> QED
      BY <1>a, <2>1, <3>1, HandlerGoes, OpsKeepCatalog
  <2>3. CASE ~Installed(DefaultSlug)
    <3>1. /\ Goto(c, "importDefault", "importActivate", here)
          /\ UNCHANGED <<mem, config, stale, unadopted>>
          /\ Add(DefaultName, here.mode, here.bundle, FALSE) /\ torn' = torn \ {SlugOf[DefaultName]}
      BY <1>4, <2>3 DEF ImportDefault, mem, here, DefaultSlug, Whole
    <3>2. CatalogInv'
      BY <1>a, <1>0, <2>1, <3>1, OpsKeepCatalog DEF Fits, Locals, Positions, StoreWrites,
         ImportSteps, SlugSteps
    <3> QED
      BY <2>1, <3>1, <3>2, HandlerGoes
  <2> QED
    BY <2>2, <2>3
<1>5. ASSUME ImportDefaultReplace(c) PROVE SafeInv'
  <2>1. pc[c] = "importDefaultReplace" /\ Fits("importActivate", here)
    BY <1>5, <1>0 DEF ImportDefaultReplace, Goto, Fits, Locals, Positions, StoreWrites,
       ImportSteps, SlugSteps, here
  <2>2. /\ Goto(c, "importDefaultReplace", "importActivate", here)
        /\ UNCHANGED <<mem, config, stale, unadopted>>
        /\ Add(DefaultName, here.mode, here.bundle, TRUE) /\ torn' = torn \ {SlugOf[DefaultName]}
    BY <1>5 DEF ImportDefaultReplace, mem, here, DefaultSlug, Whole
  <2>3. CatalogInv'
    BY <1>a, <1>0, <2>1, <2>2, OpsKeepCatalog DEF Fits, Locals, Positions, StoreWrites,
       ImportSteps, SlugSteps
  <2> QED
    BY <2>1, <2>2, <2>3, HandlerGoes
<1>6. ASSUME ImportActivate(c) PROVE SafeInv'
  <2>1. pc[c] = "importActivate" /\ Fits("importAdoptSlug", here)
    BY <1>6, <1>0 DEF ImportActivate, Return, Goto, Fits, Locals, Positions, StoreWrites,
       ImportSteps, SlugSteps, here
  <2>2. CatalogInv'
    BY <1>6, <1>a, OpsKeepCatalog DEF ImportActivate, DefaultSlug
  <2>3. /\ \/ Goto(c, "importActivate", "importAdoptSlug", here)
           \/ Goto(c, "importActivate", "idle", NoLoc)
        /\ UNCHANGED <<mem, config, stale, unadopted>>
    BY <1>6 DEF ImportActivate, Return, mem, here
  <2> QED
    BY <2>1, <2>2, <2>3, NoLocTyped, HandlerGoes
<1>7. ASSUME ImportAdoptSlug(c) PROVE SafeInv'
  <2>1. pc[c] = "importAdoptSlug" /\ here.bundle \in Trusted /\ DefaultSlug \in Slugs
    BY <1>7, <1>0 DEF ImportAdoptSlug, Return, Goto, Fits, ImportSteps, here, DefaultSlug
  <2>2. CatalogInv'
    BY <1>7, <1>a, OpsKeepCatalog DEF ImportAdoptSlug
  <2>3. HandlersInv'
    BY <1>7, <1>a, NoLocTyped, HandlerMoves DEF ImportAdoptSlug, Return, Goto, HandlersInv
  <2> QED
    BY <1>7, <1>a, <2>1, <2>2, <2>3
       DEF ImportAdoptSlug, Return, Goto, FlagAt, SafeInv, MemInv, FileInv, here
<1>8. ASSUME SwitchLoad(c) PROVE SafeInv'
  <2> DEFINE l == [slug |-> s, name |-> catalog[s].meta.name,
                   mode |-> catalog[s].meta.mode, bundle |-> catalog[s].bundle,
                   rosenpass |-> catalog[s].meta.rosenpass]
  <2>1. pc[c] = "switchLoad" /\ s \in Slugs
    BY <1>8, <1>0 DEF SwitchLoad, Fits, SlugSteps, here
  <2>2. ASSUME Loadable(s) PROVE Fits("switchAdopt", l)
    <3>1. /\ catalog[s].meta \in Meta /\ catalog[s].bundle \in Trusted
      BY <1>a, <2>1, <2>2 DEF CatalogInv, Loadable, Entry
    <3> QED
      BY <2>1, <3>1 DEF Fits, Locals, Positions, StoreWrites, ImportSteps, SlugSteps, Meta
  <2>3. /\ \/ Loadable(s) /\ Goto(c, "switchLoad", "switchAdopt", l)
           \/ Goto(c, "switchLoad", "idle", NoLoc)
        /\ UNCHANGED <<catalog, active, torn>> /\ UNCHANGED <<mem, config, stale,
                       unadopted>>
    BY <1>8 DEF SwitchLoad, Return, mem
  <2> HIDE DEF l
  <2> QED
    BY <1>a, <2>2, <2>3, NoLocTyped, HandlerGoes, OpsKeepCatalog
<1>9. ASSUME SwitchAdopt(c) PROVE SafeInv'
  <2> DEFINE l == [NoLoc EXCEPT !.slug = s]
  <2>1. /\ pc[c] = "switchAdopt" /\ here.slug \in Slugs /\ here.bundle \in Trusted
        /\ here.mode \in Modes /\ here.rosenpass \in Intents \cup {None}
    BY <1>9, <1>0 DEF SwitchAdopt, Goto, Fits, Locals, SlugSteps, here
  <2>2. Fits("switchMark", l)
    BY <2>1, NoLocTyped DEF Fits, Locals, Positions, StoreWrites, ImportSteps, SlugSteps,
       here
  <2>3. CatalogInv'
    BY <1>9, <1>a, OpsKeepCatalog DEF SwitchAdopt
  <2>4. Goto(c, "switchAdopt", "switchMark", l) /\ stale' = FALSE /\ unadopted' = FALSE
    BY <1>9 DEF SwitchAdopt
  <2> HIDE DEF l
  <2>5. HandlersInv'
    BY <1>a, <2>2, <2>4, HandlerMoves DEF Goto, HandlersInv
  <2> QED
    BY <1>9, <1>a, <2>1, <2>3, <2>5
       DEF SwitchAdopt, Goto, FlagAt, SafeInv, MemInv, FileInv, here
<1>10. ASSUME SwitchMark(c) PROVE SafeInv'
  <2>1. pc[c] = "switchMark" /\ here.slug \in Slugs
    BY <1>10, <1>0 DEF SwitchMark, Return, Goto, Fits, SlugSteps, here
  <2>2. CatalogInv'
    BY <1>10, <1>a, <1>0, <2>1, OpsKeepCatalog DEF SwitchMark, here
  <2>3. Goto(c, "switchMark", "idle", NoLoc) /\ UNCHANGED <<mem, config, stale, unadopted>>
    BY <1>10 DEF SwitchMark, Return, mem
  <2> QED
    BY <2>2, <2>3, NoLocTyped, HandlerGoes
<1>11. ASSUME RemoveClear(c) PROVE SafeInv'
  <2>1. pc[c] = "removeClear" /\ Fits("removeStore", here)
    BY <1>11, <1>0 DEF RemoveClear, Goto, Fits, Locals, Positions, StoreWrites,
       ImportSteps, SlugSteps, here
  <2>2. CatalogInv'
    BY <1>11, <1>a, OpsKeepCatalog DEF RemoveClear
  <2>3. HandlersInv'
    BY <1>11, <1>a, <2>1, HandlerMoves DEF RemoveClear, Goto, HandlersInv, here
  <2> QED
    BY <1>11, <1>a, <2>2, <2>3
       DEF RemoveClear, Goto, FlagAt, SafeInv, MemInv, FileInv
<1>12. ASSUME RemoveStore(c) PROVE SafeInv'
  <2>1. pc[c] = "removeStore" /\ here.slug \in Slugs
    BY <1>12, <1>0 DEF RemoveStore, Return, Goto, Fits, SlugSteps, here
  <2>2. CatalogInv'
    BY <1>12, <1>a, <1>0, <2>1, OpsKeepCatalog DEF RemoveStore, Whole, here
  <2>3. Goto(c, "removeStore", "idle", NoLoc) /\ UNCHANGED <<mem, config, stale, unadopted>>
    BY <1>12 DEF RemoveStore, Return, mem
  <2> QED
    BY <2>2, <2>3, NoLocTyped, HandlerGoes
<1>13. ASSUME RenameCheck(c) PROVE SafeInv'
  <2>1. pc[c] = "renameCheck" /\ Fits("renameSlug", here)
    BY <1>13, <1>0 DEF RenameCheck, Fits, Locals, Positions, StoreWrites, ImportSteps,
       SlugSteps, here
  <2>2. /\ \/ Goto(c, "renameCheck", "renameSlug", here)
           \/ Goto(c, "renameCheck", "idle", NoLoc)
        /\ UNCHANGED <<catalog, active, torn>> /\ UNCHANGED <<mem, config, stale,
                       unadopted>>
    BY <1>13 DEF RenameCheck, Return, mem, here
  <2> QED
    BY <1>a, <2>1, <2>2, NoLocTyped, HandlerGoes, OpsKeepCatalog
<1>14. ASSUME RenameSlug(c) PROVE SafeInv'
  <2>1. pc[c] = "renameSlug" /\ SlugOf[here.name] \in Slugs
    BY <1>14, <1>0 DEF RenameSlug, Return, Goto, Fits, here
  <2>2. CatalogInv'
    BY <1>14, <1>a, OpsKeepCatalog DEF RenameSlug
  <2>3. HandlersInv'
    BY <1>14, <1>a, NoLocTyped, HandlerMoves DEF RenameSlug, Return, Goto, HandlersInv
  <2> QED
    BY <1>14, <1>a, <2>1, <2>2, <2>3
       DEF RenameSlug, Return, Goto, FlagAt, SafeInv, MemInv, FileInv, here
<1>15. ASSUME ModeRead(c) PROVE SafeInv'
  <2> DEFINE to == IF curSlug # None THEN "modeMeta" ELSE "modeSave"
             l == [here EXCEPT !.slug = curSlug]
  <2>1. pc[c] = "modeRead" /\ Fits(to, l)
    BY <1>15, <1>0, <1>a DEF ModeRead, Goto, MemInv, Fits, Locals, Positions, StoreWrites,
       ImportSteps, SlugSteps, here
  <2>2. /\ Goto(c, "modeRead", to, l)
        /\ UNCHANGED <<catalog, active, torn>> /\ UNCHANGED <<mem, config, stale, unadopted>>
    BY <1>15 DEF ModeRead, mem, here
  <2> HIDE DEF to, l
  <2> QED
    BY <1>a, <2>1, <2>2, HandlerGoes, OpsKeepCatalog
<1>16. ASSUME ModeMeta(c) PROVE SafeInv'
  <2>1. pc[c] = "modeMeta" /\ here.slug \in Slugs /\ here.mode \in Modes /\ Fits("modeSave", here)
    BY <1>16, <1>0 DEF ModeMeta, Goto, Fits, Locals, Positions, StoreWrites, ImportSteps,
       SlugSteps, here
  <2>2. CatalogInv'
    BY <1>16, <1>a, <2>1, OpsKeepCatalog DEF ModeMeta, here
  <2>3. Goto(c, "modeMeta", "modeSave", here) /\ UNCHANGED <<mem, config, stale, unadopted>>
    BY <1>16 DEF ModeMeta, mem, here
  <2> QED
    BY <2>1, <2>2, <2>3, HandlerGoes
<1>17. ASSUME ModeSave(c) PROVE SafeInv'
  <2>1. pc[c] = "modeSave" /\ here.mode \in Modes
    BY <1>17, <1>0 DEF ModeSave, Return, Goto, Fits, here
  <2>2. CatalogInv'
    BY <1>17, <1>a, OpsKeepCatalog DEF ModeSave
  <2>3. HandlersInv'
    BY <1>17, <1>a, NoLocTyped, HandlerMoves DEF ModeSave, Return, Goto, HandlersInv
  <2>4. Saved(here.mode) \in [ok : BOOLEAN, mode : Modes \cup {None}, dns : 0..MaxEdits]
    BY <1>a, <2>1 DEF Saved, FileInv
  <2> QED
    BY <1>17, <1>a, <2>2, <2>3, <2>4
       DEF ModeSave, Return, Goto, FlagAt, SafeInv, MemInv, FileInv, here
<1>18. ASSUME RosenpassMeta(c) PROVE SafeInv'
  <2>1. pc[c] = "rosenpassMeta" /\ here.slug \in Slugs /\ here.rosenpass \in Intents
    BY <1>18, <1>0 DEF RosenpassMeta, Return, Goto, Fits, SlugSteps, here
  <2>2. CatalogInv'
    BY <1>18, <1>a, <2>1, OpsKeepCatalog DEF RosenpassMeta, here
  <2>3. Goto(c, "rosenpassMeta", "idle", NoLoc) /\ UNCHANGED <<mem, config, stale,
                                                               unadopted>>
    BY <1>18 DEF RosenpassMeta, Return, mem
  <2> QED
    BY <2>2, <2>3, NoLocTyped, HandlerGoes
<1>19. ASSUME StoreError(c) PROVE SafeInv'
  <2>0. CatalogInv'
    BY <1>19, <1>a, OpsKeepCatalog, CutShortKeeps DEF StoreError
  <2>1. CatalogInv' /\ MemInv' /\ FileInv'
    BY <1>19, <1>a, <2>0 DEF StoreError, MemInv, FileInv, cmdline
  <2>2. CASE pc[c] = "modeMeta"
    <3>1. Fits("modeSave", here)
      BY <1>0, <2>2 DEF Fits, Locals, Positions, StoreWrites, ImportSteps, SlugSteps
    <3>2. loc' = [loc EXCEPT ![c] = here] /\ pc' = [pc EXCEPT ![c] = "modeSave"]
      BY <1>19, <1>a, <2>2 DEF StoreError, HandlersInv, here
    <3> QED
      BY <1>19, <1>a, <2>1, <3>1, <3>2, HandlerMoves DEF StoreError, HandlersInv, SafeInv
  <2>3. CASE pc[c] # "modeMeta"
    BY <1>19, <1>a, <2>1, <2>3, NoLocTyped, HandlerMoves DEF StoreError, HandlersInv,
       SafeInv
  <2> QED
    BY <2>2, <2>3
<1> QED
  BY <1>1, <1>2, <1>3, <1>4, <1>5, <1>6, <1>7, <1>8, <1>9, <1>10,
     <1>11, <1>12, <1>13, <1>14, <1>15, <1>16, <1>17, <1>18, <1>19 DEF Handle

LEMMA NextSafe == SafeInv /\ [Next]_vars => SafeInv'
<1> SUFFICES ASSUME SafeInv, [Next]_vars PROVE SafeInv'
  OBVIOUS
<1>1. CASE UNCHANGED vars
  BY <1>1, OpsKeepCatalog
     DEF vars, mem, cmdline, SafeInv, MemInv, FileInv, HandlersInv
<1> QED
  BY <1>1, StartupSafe, RequestSafe, HandleSafe DEF Next

(***************************************************************************)
(* Every variable keeps its type, with any number of connections at work   *)
(* and the process dying between two sections of a handler or inside one.  *)
(***************************************************************************)
THEOREM DaemonTypeCorrect == Spec => []TypeOK
<1>1. Spec => []SafeInv
  BY InitSafe, NextSafe, PTL DEF Spec
<1> QED
  BY <1>1, SafeImpliesType, PTL

(***************************************************************************)
(* The marker resolves (daemon.go: the marker is written last, "so a crash *)
(* mid-switch keeps the previous active profile pointing at a profile we   *)
(* know is reachable"), unless a removal, a rename or an import over the   *)
(* profile it names was cut short by a failing write or by the end of the  *)
(* process and has not been done over since.                               *)
(***************************************************************************)
THEOREM MarkerAlwaysResolves == Spec => []MarkerResolves
<1>1. SafeInv => MarkerResolves
  BY DEF SafeInv, CatalogInv, MarkerResolves
<1>2. Spec => []SafeInv
  BY InitSafe, NextSafe, PTL DEF Spec
<1> QED
  BY <1>1, <1>2, PTL

(***************************************************************************)
(* No handler puts a bundle that did not verify on disk or into memory     *)
(* (ImportBundle, AddProfile, setActiveLocked, LoadPersistedBundle).       *)
(***************************************************************************)
THEOREM VerifiedInUse == Spec => []OnlyVerifiedInUse
<1>1. SafeInv => OnlyVerifiedInUse
  BY DEF SafeInv, CatalogInv, MemInv, OnlyVerifiedInUse
<1>2. Spec => []SafeInv
  BY InitSafe, NextSafe, PTL DEF Spec
<1> QED
  BY <1>1, <1>2, PTL

-----------------------------------------------------------------------------
(* The operator's keys. *)

LEMMA KeysStep == SafeInv /\ KeysInv /\ [Next]_vars => KeysInv'
<1> SUFFICES ASSUME SafeInv, KeysInv, [Next]_vars PROVE KeysInv'
  OBVIOUS
<1> USE DEF KeysInv, OperatorKeysSurvive
<1>0. edits \in Nat /\ persisted \in Nat /\ config.dns \in Nat
  BY DEF SafeInv, FileInv
<1>1. ASSUME Startup PROVE KeysInv'
  BY <1>0, <1>1
     DEF Startup, Start, BootActive, BootEmpty, MayMigrate, MigrateAdd, MigrateSetActive,
         MigrateFail, cmdline
<1>2. ASSUME NEW ok \in BOOLEAN, EditConfig(ok) PROVE KeysInv'
  BY <1>0, <1>2 DEF EditConfig
<1>3. ASSUME NEW m, MendConfig(m) PROVE KeysInv'
  BY <1>0, <1>3 DEF MendConfig, cmdline, SafeInv, FileInv
<1>4. ASSUME Crash PROVE KeysInv'
  BY <1>0, <1>4 DEF Crash
<1>5. ASSUME NEW c \in Conns, Request(c) PROVE KeysInv'
  <2>1. ASSUME NEW at, NEW l, Enter(c, at, l) \/ EnterFailing(c, at, l) PROVE KeysInv'
    BY <1>0, <2>1 DEF Enter, EnterFailing, cmdline
  <2>2. ASSUME NEW b \in Bundles, ImportRead(c, b) PROVE KeysInv'
    BY <2>1, <2>2 DEF ImportRead
  <2>3. ASSUME NEW n \in Names, NEW m \in Modes, NEW b \in Bundles, NEW r \in BOOLEAN,
               NEW sa \in BOOLEAN, AddProfile(c, n, m, b, r, sa)
        PROVE  KeysInv'
    BY <2>1, <2>3 DEF AddProfile
  <2>4. ASSUME NEW s \in Slugs, SetActiveProfile(c, s) \/ RemoveProfile(c, s) PROVE KeysInv'
    BY <2>1, <2>4 DEF SetActiveProfile, RemoveProfile
  <2>5. ASSUME NEW s \in Slugs, NEW n \in Names, RenameProfile(c, s, n) PROVE KeysInv'
    BY <2>1, <2>5 DEF RenameProfile
  <2>6. ASSUME NEW m \in Modes, SetMode(c, m) PROVE KeysInv'
    BY <2>1, <2>6 DEF SetMode
  <2>7. ASSUME NEW i \in Intents, SetRosenpass(c, i) PROVE KeysInv'
    BY <2>1, <2>7 DEF SetRosenpass
  <2>8. ASSUME NEW n \in Names, NEW b \in Bundles, NEW r \in BOOLEAN,
               AddProfileFails(c, n, b, r)
        PROVE  KeysInv'
    BY <2>1, <2>8 DEF AddProfileFails
  <2>9. ASSUME NEW s \in Slugs, NEW n \in Names, RenameProfileFails(c, s, n) PROVE KeysInv'
    BY <2>1, <2>9 DEF RenameProfileFails
  <2> HIDE DEF KeysInv, OperatorKeysSurvive
  <2> QED
    BY <1>5, <2>2, <2>3, <2>4, <2>5, <2>6, <2>7, <2>8, <2>9 DEF Request
<1>6. ASSUME NEW c \in Conns, ModeSave(c) PROVE KeysInv'
  BY <1>0, <1>6 DEF ModeSave, Return, Goto, Saved
<1>7. ASSUME NEW c \in Conns, Handle(c), ~ModeSave(c) PROVE KeysInv'
  BY <1>0, <1>7
     DEF Handle, Return, Goto, ImportList, ImportReplace, ImportAdopt, ImportDefault,
         ImportDefaultReplace, ImportActivate, ImportAdoptSlug, SwitchLoad, SwitchAdopt,
         SwitchMark, RemoveClear, RemoveStore, RenameCheck, RenameSlug, ModeRead, ModeMeta,
         RosenpassMeta, StoreError, cmdline
<1>8. CASE UNCHANGED vars
  BY <1>8 DEF vars, cmdline
<1> QED
  BY <1>1, <1>2, <1>3, <1>4, <1>5, <1>6, <1>7, <1>8 DEF Next, Operator

(***************************************************************************)
(* SetMode never drops the operator's mesh_dns keys as they were when the  *)
(* daemon started (daemon.go: "a setmode round-trip must never drop them"),*)
(* for any number of edits and however saves interleave.                   *)
(***************************************************************************)
THEOREM KeysSurvive == Spec => []OperatorKeysSurvive
<1>1. Init => KeysInv
  BY DEF Init, KeysInv, OperatorKeysSurvive
<1>2. Spec => []SafeInv
  BY InitSafe, NextSafe, PTL DEF Spec
<1>3. KeysInv => OperatorKeysSurvive
  BY DEF KeysInv
<1> QED
  BY <1>1, <1>2, <1>3, KeysStep, PTL DEF Spec

-----------------------------------------------------------------------------
(* Memory and marker. *)

(* A request that enters undisturbed finds nobody at work. *)
LEMMA EntersAlone ==
    ASSUME SafeInv, MarkerInv, NEW c \in Conns, NEW at, NEW l, Enter(c, at, l)
    PROVE  /\ phase' = "serving" /\ pc'[c] = at /\ loc'[c] = l
           /\ Calm' => /\ Calm /\ AllIdle /\ Follows
                       /\ \A d \in Conns \ {c} : pc'[d] = "idle"
BY DEF Enter, SafeInv, HandlersInv, MarkerInv, Calm, AllIdle

(* A handler that goes on undisturbed is still the only one. *)
LEMMA GoesAlone ==
    ASSUME SafeInv, MarkerInv, NEW c \in Conns, NEW from, NEW to, NEW l, from # "idle",
           Goto(c, from, to, l)
    PROVE  /\ phase' = "serving" /\ pc[c] = from /\ pc'[c] = to /\ loc'[c] = l
           /\ Calm' => /\ Calm /\ Track(c)
                       /\ \A d \in Conns \ {c} : pc'[d] = "idle"
<1>1. phase' = "serving" /\ pc[c] = from /\ pc'[c] = to /\ loc'[c] = l /\ phase = phase'
  BY DEF Goto, SafeInv, HandlersInv, MarkerInv, AllIdle
<1>2. ASSUME Calm' PROVE Calm /\ Alone /\ Track(c)
  BY <1>1, <1>2 DEF Calm, Goto, MarkerInv
<1>3. ASSUME Calm', NEW d \in Conns \ {c} PROVE pc'[d] = "idle"
  BY <1>1, <1>2, <1>3 DEF Alone, Goto, SafeInv, HandlersInv
<1> QED
  BY <1>1, <1>2, <1>3

(* It is enough to follow the handler that moved. *)
LEMMA MarkerFollowed ==
    ASSUME NEW c \in Conns, phase' = "serving",
           Calm' => /\ \A d \in Conns \ {c} : pc'[d] = "idle"
                    /\ pc'[c] = "idle" => Follows'
                    /\ Track(c)'
    PROVE  MarkerInv'
<1> SUFFICES ASSUME Calm' PROVE (Alone /\ (AllIdle => Follows) /\ \A d \in Conns : Track(d))'
  BY DEF MarkerInv
<1>1. ASSUME NEW d \in Conns \ {c} PROVE Track(d)'
  BY <1>1 DEF Track
<1> QED
  BY <1>1 DEF Alone, AllIdle

(* A step that neither moves marker or memory nor uninstalls a profile. *)
Kept ==
    /\ UNCHANGED <<active, curSlug, unadopted>>
    /\ \A s \in Slugs : Installed(s) => catalog'[s].meta # None

LEMMA KeptFollows ==
    ASSUME SafeInv, Kept
    PROVE  (Follows => Follows') /\ (Marked => Marked')
<1>1. active \in Slugs \cup {None}
  BY DEF SafeInv, CatalogInv
<1> QED
  BY <1>1 DEF Kept, Follows, Marked, Installed

LEMMA AddKeeps ==
    ASSUME SafeInv, NEW n \in Names, NEW m \in Modes, NEW b \in Bundles,
           Add(n, m, b, TRUE) \/ Add(n, m, b, FALSE)
    PROVE  \A s \in Slugs : Installed(s) => catalog'[s].meta # None
<1>1. PICK r : Add(n, m, b, r)
  OBVIOUS
<1> QED
  BY <1>1, AddEffect DEF SafeInv, Installed

LEMMA MarkerUntouched ==
    ASSUME MarkerInv,
           UNCHANGED <<catalog, active, phase, mem, pc, loc, disturbed, stale, unadopted>>
    PROVE  MarkerInv'
<1>1. UNCHANGED <<AllIdle, Calm, Alone, Follows, Marked>>
  BY DEF mem, AllIdle, Calm, Alone, Follows, Marked, Installed
<1>2. \A c \in Conns : Track(c) => Track(c)'
  BY <1>1 DEF mem, Track, Installed
<1> QED
  BY <1>1, <1>2 DEF MarkerInv, mem, Installed

LEMMA StartupMarker ==
    ASSUME SafeInv, MarkerInv, Startup \/ Operator \/ Crash PROVE MarkerInv'
<1>0. ASSUME AllIdle', phase' = "serving", Calm' => Follows' PROVE MarkerInv'
  BY <1>0 DEF MarkerInv, AllIdle, Alone, Track
<1>1. ASSUME NEW f, Start(f) PROVE MarkerInv'
  BY <1>1 DEF Start, MarkerInv, AllIdle, Calm
<1>2. ASSUME BootActive PROVE MarkerInv'
  BY <1>0, <1>2
     DEF BootActive, Adopt, MarkerInv, AllIdle, Follows, Marked, Loadable, Installed
<1>3. ASSUME BootEmpty PROVE MarkerInv'
  BY <1>0, <1>3 DEF BootEmpty, MarkerInv, AllIdle, Follows
<1>4. ASSUME MigrateAdd PROVE MarkerInv'
  <2>2. curMode \in Modes /\ Legacy \in Bundles /\ Add(DefaultName, curMode, Legacy, FALSE)
    BY <1>4 DEF MigrateAdd, MayMigrate, SafeInv, MemInv
  <2>3. /\ active' = active /\ catalog'[SlugOf[DefaultName]].meta = FreshMeta(DefaultName, curMode)
        /\ FreshMeta(DefaultName, curMode) \in Meta
    <3> HIDE DaemonAssumption, CatalogAssumption
    <3>1. CatalogInv /\ DefaultName \in Names
      BY DaemonAssumption DEF SafeInv
    <3> QED
      BY <2>2, <3>1, AddEffect
  <2> QED
    BY <1>4, <2>3 DEF MigrateAdd, MayMigrate, MarkerInv, AllIdle, Calm, Installed,
       DefaultSlug
<1>5. ASSUME MigrateSetActive PROVE MarkerInv'
  BY <1>0, <1>5
     DEF MigrateSetActive, SetActive, Adopt, MarkerInv, AllIdle, Follows, Marked, Installed,
         DefaultSlug
<1>6. ASSUME MigrateFail PROVE MarkerInv'
  BY <1>0, <1>6 DEF MigrateFail, MayMigrate, MarkerInv, AllIdle, Calm
<1>7. ASSUME Crash PROVE MarkerInv'
  BY <1>7 DEF Crash, MarkerInv, AllIdle, Calm
<1>8. ASSUME Operator PROVE MarkerInv'
  <2>1. UNCHANGED <<catalog, active, phase, mem, pc, loc, disturbed, stale, unadopted>>
    BY <1>8 DEF Operator, EditConfig, MendConfig
  <2> QED
    BY <2>1, MarkerUntouched
<1> QED
  BY <1>1, <1>2, <1>3, <1>4, <1>5, <1>6, <1>7, <1>8 DEF Startup

LEMMA RequestMarker ==
    ASSUME SafeInv, MarkerInv, NEW c \in Conns, Request(c) PROVE MarkerInv'
<1> USE NoLocTyped
<1>0. CatalogInv /\ curSlug \in Slugs \cup {None}
  BY DEF SafeInv, MemInv
<1>1. ASSUME NEW b \in Bundles, ImportRead(c, b) PROVE MarkerInv'
  <2> DEFINE at == IF curSlug # None THEN "importList" ELSE "importDefault"
             l == [NoLoc EXCEPT !.slug = curSlug, !.mode = curMode, !.bundle = b]
  <2>1. Enter(c, at, l) /\ Kept
    BY <1>1 DEF ImportRead, Kept, Installed
  <2>2. l.slug = curSlug
    BY DEF NoLoc
  <2> HIDE DEF l
  <2>3. UNCHANGED <<active, curSlug>> /\ (Follows => Follows') /\ (Marked => Marked')
    BY <2>1, KeptFollows DEF Kept
  <2>4. Follows /\ curSlug # None => curSlug = active /\ Marked
    BY DEF Follows
  <2> QED
    BY <2>1, <2>2, <2>3, <2>4, EntersAlone, MarkerFollowed DEF Track
<1>2. ASSUME NEW n \in Names, NEW m \in Modes, NEW b \in Bundles, NEW r \in BOOLEAN,
             NEW sa \in BOOLEAN, AddProfile(c, n, m, b, r, sa)
      PROVE  MarkerInv'
  <2> DEFINE at == IF sa THEN "switchLoad" ELSE "idle"
             l == IF sa THEN [NoLoc EXCEPT !.slug = SlugOf[n]] ELSE NoLoc
  <2>1. Enter(c, at, l) /\ UNCHANGED <<active, curSlug, unadopted>>
    BY <1>2 DEF AddProfile, Add, mem
  <2>2. \A s \in Slugs : Installed(s) => catalog'[s].meta # None
    BY <1>0, <1>2, AddEffect DEF AddProfile, Installed
  <2> HIDE DEF l
  <2>3. Follows => Follows'
    BY <2>1, <2>2, KeptFollows DEF Kept
  <2> QED
    BY <2>1, <2>3, EntersAlone, MarkerFollowed DEF Track
<1>3. ASSUME NEW s \in Slugs, SetActiveProfile(c, s) PROVE MarkerInv'
  <2> DEFINE l == [NoLoc EXCEPT !.slug = s]
  <2>1. Enter(c, "switchLoad", l) /\ Kept
    BY <1>3 DEF SetActiveProfile, Kept, Installed
  <2> HIDE DEF l
  <2> QED
    BY <2>1, KeptFollows, EntersAlone, MarkerFollowed DEF Track
<1>4. ASSUME NEW s \in Slugs, RemoveProfile(c, s) PROVE MarkerInv'
  <2> DEFINE at == IF s = curSlug THEN "removeClear" ELSE "removeStore"
             l == [NoLoc EXCEPT !.slug = s]
  <2>1. Enter(c, at, l) /\ Kept
    BY <1>4 DEF RemoveProfile, Kept, Installed
  <2>2. l.slug = s
    BY DEF NoLoc
  <2> HIDE DEF l
  <2>3. UNCHANGED <<active, curSlug>> /\ (Follows => Follows') /\ (Marked => Marked')
    BY <2>1, KeptFollows DEF Kept
  <2>4. Follows /\ curSlug # None => curSlug = active /\ Marked
    BY DEF Follows
  <2> QED
    BY <2>1, <2>2, <2>3, <2>4, EntersAlone, MarkerFollowed DEF Track
<1>5. ASSUME NEW s \in Slugs, NEW n \in Names, RenameProfile(c, s, n) PROVE MarkerInv'
  <2> DEFINE l == [NoLoc EXCEPT !.slug = s, !.name = n]
  <2>1. Enter(c, "renameCheck", l) /\ UNCHANGED <<curSlug, unadopted>>
    BY <1>5 DEF RenameProfile
  <2>2. l.slug = s /\ l.name = n
    BY DEF NoLoc
  <2>3. /\ active' = IF active = s THEN SlugOf[n] ELSE active
        /\ SlugOf[n] \in Slugs /\ catalog'[SlugOf[n]].meta # None
        /\ SlugOf[n] # s => ~Installed(SlugOf[n])
        /\ \A u \in Slugs \ {s, SlugOf[n]} : catalog'[u] = catalog[u]
    BY <1>0, <1>5, RenameEffect DEF RenameProfile
  <2> HIDE DEF l
  <2>4. active \in Slugs \cup {None}
    BY <1>0 DEF CatalogInv
  <2>5. Follows => IF curSlug = s THEN active' = SlugOf[n] /\ Marked' ELSE Follows'
    BY <2>1, <2>3, <2>4 DEF Follows, Marked, Installed
  <2> QED
    BY <2>1, <2>2, <2>5, EntersAlone, MarkerFollowed DEF Track
<1>6. ASSUME NEW m \in Modes, SetMode(c, m) PROVE MarkerInv'
  <2> DEFINE l == [NoLoc EXCEPT !.mode = m]
  <2>1. Enter(c, "modeRead", l) /\ Kept
    BY <1>6 DEF SetMode, Kept, Installed
  <2> HIDE DEF l
  <2> QED
    BY <2>1, KeptFollows, EntersAlone, MarkerFollowed DEF Track
<1>7. ASSUME NEW i \in Intents, SetRosenpass(c, i) PROVE MarkerInv'
  <2> DEFINE at == IF curSlug # None THEN "rosenpassMeta" ELSE "idle"
             l == IF curSlug # None THEN [NoLoc EXCEPT !.slug = curSlug, !.rosenpass = i]
                                    ELSE NoLoc
  <2>1. Enter(c, at, l) /\ Kept
    BY <1>7 DEF SetRosenpass, Kept, Installed
  <2> HIDE DEF l
  <2> QED
    BY <2>1, KeptFollows, EntersAlone, MarkerFollowed DEF Track
<1>8. ASSUME NEW n \in Names, NEW b \in Bundles, NEW r \in BOOLEAN, AddProfileFails(c, n, b, r)
      PROVE  MarkerInv'
  BY <1>8, MarkerFollowed DEF AddProfileFails, EnterFailing, Calm
<1>9. ASSUME NEW s \in Slugs, NEW n \in Names, RenameProfileFails(c, s, n) PROVE MarkerInv'
  BY <1>9, MarkerFollowed DEF RenameProfileFails, EnterFailing, Calm
<1> QED
  BY <1>1, <1>2, <1>3, <1>4, <1>5, <1>6, <1>7, <1>8, <1>9 DEF Request

LEMMA HandleMarker ==
    ASSUME SafeInv, MarkerInv, NEW c \in Conns, Handle(c) PROVE MarkerInv'
<1> DEFINE here == loc[c]
<1>0. Fits(pc[c], here) /\ CatalogInv
  BY DEF SafeInv, HandlersInv
<1> HIDE DEF here
<1>1. ASSUME ImportList(c) PROVE MarkerInv'
  <2>1. PICK l : /\ Goto(c, "importList", "importReplace", l) /\ l.slug = here.slug
                 /\ Kept
    BY <1>1, <1>0 DEF ImportList, here, Fits, Locals, Kept, Installed
  <2>2. UNCHANGED <<active, curSlug>> /\ (Marked => Marked')
    BY <2>1, KeptFollows DEF Kept
  <2> QED
    BY <2>1, <2>2, GoesAlone, MarkerFollowed DEF Track, here
<1>2. ASSUME ImportReplace(c) PROVE MarkerInv'
  <2>1. /\ Goto(c, "importReplace", "importAdopt", here)
        /\ UNCHANGED <<active, curSlug, unadopted>>
        /\ Add(here.name, here.mode, here.bundle, TRUE)
    BY <1>2 DEF ImportReplace, Add, here
  <2>2. here.name \in Names /\ here.mode \in Modes /\ here.bundle \in Bundles
    BY <1>0, <2>1 DEF Goto, Fits, ImportSteps
  <2>3. Marked => Marked'
    BY <2>1, <2>2, AddKeeps, KeptFollows DEF Kept
  <2> QED
    BY <2>1, <2>3, GoesAlone, MarkerFollowed DEF Track, here
<1>3. ASSUME ImportAdopt(c) PROVE MarkerInv'
  <2>1. Goto(c, "importAdopt", "idle", NoLoc) /\ Kept
    BY <1>3 DEF ImportAdopt, Return, Kept, Installed
  <2>2. curSlug = active /\ Marked => Follows
    BY DEF Follows
  <2> QED
    BY <2>1, <2>2, KeptFollows, GoesAlone, MarkerFollowed DEF Track
<1>4. ASSUME ImportDefault(c) PROVE MarkerInv'
  <2>1. /\ \/ Goto(c, "importDefault", "importDefaultReplace", here)
           \/ Goto(c, "importDefault", "importActivate", here)
        /\ UNCHANGED <<active, curSlug, unadopted>>
        /\ \/ UNCHANGED catalog
           \/ Add(DefaultName, here.mode, here.bundle, FALSE)
    BY <1>4 DEF ImportDefault, Add, here
  <2>2. here.mode \in Modes /\ here.bundle \in Bundles
    BY <1>0, <2>1 DEF Goto, Fits, ImportSteps
  <2>3. Follows => Follows'
    BY <2>1, <2>2, AddKeeps, KeptFollows DEF Kept, Installed
  <2> QED
    BY <2>1, <2>3, GoesAlone, MarkerFollowed DEF Track
<1>5. ASSUME ImportDefaultReplace(c) PROVE MarkerInv'
  <2>1. /\ Goto(c, "importDefaultReplace", "importActivate", here)
        /\ UNCHANGED <<active, curSlug, unadopted>>
        /\ Add(DefaultName, here.mode, here.bundle, TRUE)
    BY <1>5 DEF ImportDefaultReplace, Add, here
  <2>2. here.mode \in Modes /\ here.bundle \in Bundles
    BY <1>0, <2>1 DEF Goto, Fits, ImportSteps
  <2>3. Follows => Follows'
    BY <2>1, <2>2, AddKeeps, KeptFollows DEF Kept
  <2> QED
    BY <2>1, <2>3, GoesAlone, MarkerFollowed DEF Track
<1>6. ASSUME ImportActivate(c) PROVE MarkerInv'
  <2>1. CASE Installed(DefaultSlug)
    <3>1. /\ Goto(c, "importActivate", "importAdoptSlug", here) /\ active' = DefaultSlug
          /\ UNCHANGED catalog
      BY <1>6, <2>1 DEF ImportActivate, SetActive, here
    <3>2. Marked'
      BY <2>1, <3>1 DEF Marked, Installed, DefaultSlug
    <3> QED
      BY <3>1, <3>2, GoesAlone, MarkerFollowed DEF Track
  <2>2. CASE ~Installed(DefaultSlug)
    <3>1. Goto(c, "importActivate", "idle", NoLoc) /\ Kept
      BY <1>6, <2>2 DEF ImportActivate, Return, Kept, Installed
    <3> QED
      BY <3>1, KeptFollows, GoesAlone, MarkerFollowed DEF Track
  <2> QED
    BY <2>1, <2>2
<1>7. ASSUME ImportAdoptSlug(c) PROVE MarkerInv'
  <2>1. /\ Goto(c, "importAdoptSlug", "idle", NoLoc)
        /\ curSlug' = DefaultSlug /\ UNCHANGED <<catalog, active>>
    BY <1>7 DEF ImportAdoptSlug, Return
  <2>2. active = DefaultSlug /\ Marked => Follows'
    BY <2>1 DEF Follows, Marked, Installed
  <2> QED
    BY <2>1, <2>2, GoesAlone, MarkerFollowed DEF Track
<1>8. ASSUME SwitchLoad(c) PROVE MarkerInv'
  <2>1. CASE Loadable(here.slug)
    <3>1. PICK l : /\ Goto(c, "switchLoad", "switchAdopt", l)
                   /\ l.slug = here.slug /\ l.bundle = catalog[here.slug].bundle
                   /\ l.mode = catalog[here.slug].meta.mode
                   /\ UNCHANGED <<catalog, active, curSlug>>
      BY <1>8, <2>1 DEF SwitchLoad, here
    <3> QED
      BY <2>1, <3>1, GoesAlone, MarkerFollowed DEF Track, Loadable, Installed
  <2>2. CASE ~Loadable(here.slug)
    <3>1. Goto(c, "switchLoad", "idle", NoLoc) /\ Kept
      BY <1>8, <2>2 DEF SwitchLoad, Return, here, Kept, Installed
    <3> QED
      BY <3>1, KeptFollows, GoesAlone, MarkerFollowed DEF Track
  <2> QED
    BY <2>1, <2>2
<1>9. ASSUME SwitchAdopt(c) PROVE MarkerInv'
  <2>1. PICK l : /\ Goto(c, "switchAdopt", "switchMark", l) /\ l.slug = here.slug
                 /\ curSlug' = here.slug /\ UNCHANGED catalog
    BY <1>9 DEF SwitchAdopt, here, NoLoc
  <2> QED
    BY <2>1, GoesAlone, MarkerFollowed DEF Track, Installed, here
<1>10. ASSUME SwitchMark(c) PROVE MarkerInv'
  <2>1. /\ Goto(c, "switchMark", "idle", NoLoc) /\ UNCHANGED curSlug
        /\ Installed(here.slug) => active' = here.slug /\ UNCHANGED catalog
    BY <1>10 DEF SwitchMark, SetActive, Return, here
  <2>2. here.slug \in Slugs
    BY <1>0, <2>1 DEF Goto, Fits, SlugSteps
  <2>3. curSlug = here.slug /\ Installed(here.slug) => Follows'
    BY <2>1, <2>2 DEF Follows, Marked, Installed
  <2> QED
    BY <2>1, <2>3, GoesAlone, MarkerFollowed DEF Track, here
<1>11. ASSUME RemoveClear(c) PROVE MarkerInv'
  <2>1. /\ Goto(c, "removeClear", "removeStore", here) /\ curSlug' = None
        /\ UNCHANGED <<catalog, active>>
    BY <1>11 DEF RemoveClear, here
  <2>2. Marked => Marked'
    BY <2>1 DEF Marked, Installed
  <2> QED
    BY <2>1, <2>2, GoesAlone, MarkerFollowed DEF Track, here
<1>12. ASSUME RemoveStore(c) PROVE MarkerInv'
  <2>1. Goto(c, "removeStore", "idle", NoLoc) /\ UNCHANGED <<curSlug, unadopted>>
    BY <1>12 DEF RemoveStore, Return
  <2>2. here.slug \in Slugs /\ active \in Slugs \cup {None}
    BY <1>0, <2>1 DEF Goto, Fits, SlugSteps, CatalogInv
  <2>3. IF Installed(here.slug) THEN active' = (IF active = here.slug THEN None ELSE active)
                                ELSE active' = active
    BY <1>12 DEF RemoveStore, Remove, here
  <2>4. \A u \in Slugs \ {here.slug} : catalog'[u] = catalog[u]
    BY <1>0, <1>12, <2>2, RemoveEffect DEF RemoveStore, here
  <2>5. Follows /\ here.slug # curSlug => Follows'
    BY <2>1, <2>2, <2>3, <2>4 DEF Follows, Marked, Installed
  <2>6. curSlug = None /\ here.slug = active /\ Marked => Follows'
    BY <2>1, <2>3 DEF Follows, Marked
  <2> QED
    BY <2>1, <2>5, <2>6, GoesAlone, MarkerFollowed DEF Track, here
<1>13. ASSUME RenameCheck(c) PROVE MarkerInv'
  <2>1. /\ IF curSlug = here.slug THEN Goto(c, "renameCheck", "renameSlug", here)
                                  ELSE Goto(c, "renameCheck", "idle", NoLoc)
        /\ Kept
    BY <1>13 DEF RenameCheck, Return, here, Kept, Installed
  <2>2. UNCHANGED <<active, curSlug>> /\ (Follows => Follows') /\ (Marked => Marked')
    BY <2>1, KeptFollows DEF Kept
  <2> QED
    BY <2>1, <2>2, GoesAlone, MarkerFollowed DEF Track, here
<1>14. ASSUME RenameSlug(c) PROVE MarkerInv'
  <2>1. /\ Goto(c, "renameSlug", "idle", NoLoc)
        /\ curSlug' = SlugOf[here.name] /\ UNCHANGED <<catalog, active>>
    BY <1>14 DEF RenameSlug, Return, here
  <2>2. active = SlugOf[here.name] /\ Marked => Follows'
    BY <2>1 DEF Follows, Marked, Installed
  <2> QED
    BY <2>1, <2>2, GoesAlone, MarkerFollowed DEF Track, here
<1>15. ASSUME ModeRead(c) PROVE MarkerInv'
  <2>1. PICK l : /\ \/ Goto(c, "modeRead", "modeMeta", l)
                    \/ Goto(c, "modeRead", "modeSave", l)
                 /\ Kept
    BY <1>15 DEF ModeRead, Kept, Installed
  <2> QED
    BY <2>1, KeptFollows, GoesAlone, MarkerFollowed DEF Track
<1>16. ASSUME ModeMeta(c) PROVE MarkerInv'
  <2>1. Goto(c, "modeMeta", "modeSave", here) /\ UNCHANGED <<active, curSlug, unadopted>>
    BY <1>16 DEF ModeMeta, UpdateMode, here
  <2>2. here.slug \in Slugs /\ here.mode \in Modes
    BY <1>0, <2>1 DEF Goto, Fits, SlugSteps
  <2>3. \A u \in Slugs : Installed(u) => catalog'[u].meta # None
    BY <1>0, <1>16, <2>2, UpdateModeEffect DEF ModeMeta, here, Installed
  <2> QED
    BY <2>1, <2>3, KeptFollows, GoesAlone, MarkerFollowed DEF Track, Kept
<1>17. ASSUME ModeSave(c) PROVE MarkerInv'
  <2>1. Goto(c, "modeSave", "idle", NoLoc) /\ Kept
    BY <1>17 DEF ModeSave, Return, Kept, Installed
  <2> QED
    BY <2>1, KeptFollows, GoesAlone, MarkerFollowed DEF Track
<1>18. ASSUME RosenpassMeta(c) PROVE MarkerInv'
  <2>1. Goto(c, "rosenpassMeta", "idle", NoLoc) /\ UNCHANGED <<active, curSlug, unadopted>>
    BY <1>18 DEF RosenpassMeta, Return, UpdateRosenpass
  <2>2. here.slug \in Slugs /\ here.rosenpass \in Intents
    BY <1>0, <2>1 DEF Goto, Fits, SlugSteps
  <2>3. \A u \in Slugs : Installed(u) => catalog'[u].meta # None
    BY <1>0, <1>18, <2>2, UpdateRosenpassEffect DEF RosenpassMeta, here, Installed
  <2> QED
    BY <2>1, <2>3, KeptFollows, GoesAlone, MarkerFollowed DEF Track, Kept
<1>19. ASSUME StoreError(c) PROVE MarkerInv'
  <2>1. phase = "serving"
    BY <1>19 DEF StoreError, StoreWrites, MarkerInv, AllIdle
  <2> QED
    BY <1>19, <2>1, MarkerFollowed DEF StoreError, Calm
<1> QED
  BY <1>1, <1>2, <1>3, <1>4, <1>5, <1>6, <1>7, <1>8, <1>9, <1>10,
     <1>11, <1>12, <1>13, <1>14, <1>15, <1>16, <1>17, <1>18, <1>19 DEF Handle

LEMMA NextMarker == SafeInv /\ MarkerInv /\ [Next]_vars => MarkerInv'
<1> SUFFICES ASSUME SafeInv, MarkerInv, [Next]_vars PROVE MarkerInv'
  OBVIOUS
<1>1. CASE UNCHANGED vars
  BY <1>1, MarkerUntouched DEF vars
<1> QED
  BY <1>1, StartupMarker, RequestMarker, HandleMarker DEF Next

(***************************************************************************)
(* The daemon serves the profile the marker names: between requests that   *)
(* did not overlap, the slug in memory is the one a restart would adopt,   *)
(* or start-up found a marker that did not load and none was adopted since.*)
(***************************************************************************)
THEOREM ServesTheMarked == Spec => []MemoryFollowsMarker
<1>1. Init => MarkerInv
  BY DEF Init, MarkerInv, AllIdle, Calm
<1>2. Spec => []SafeInv
  BY InitSafe, NextSafe, PTL DEF Spec
<1>3. MarkerInv => MemoryFollowsMarker
  BY DEF MarkerInv, MemoryFollowsMarker, Quiet, Calm, AllIdle, Follows
<1> QED
  BY <1>1, <1>2, <1>3, NextMarker, PTL DEF Spec

-----------------------------------------------------------------------------
(* Memory and disk. *)

LEMMA DiskFollowed ==
    ASSUME NEW c \in Conns, phase' = "serving",
           Calm' /\ ~stale' => /\ \A d \in Conns \ {c} : pc'[d] = "idle"
                               /\ pc'[c] = "idle" => (curSlug # None => Agrees(curSlug))'
                               /\ TrackDisk(c)'
    PROVE  DiskInv'
<1> SUFFICES ASSUME Calm', ~stale'
             PROVE  (/\ AllIdle /\ curSlug # None => Agrees(curSlug)
                     /\ \A d \in Conns : TrackDisk(d))'
  BY DEF DiskInv
<1>1. ASSUME NEW d \in Conns \ {c} PROVE TrackDisk(d)'
  BY <1>1 DEF TrackDisk
<1> QED
  BY <1>1 DEF AllIdle

(* Nothing that the agreement depends on changes. *)
LEMMA AgreesStill ==
    ASSUME UNCHANGED <<catalog, curBundle, curMode, flag>>, NEW s \in Slugs
    PROVE  (Agrees(s) => Agrees(s)') /\ (ModeAgrees(s) => ModeAgrees(s)')
BY DEF Agrees, ModeAgrees

LEMMA DiskUntouched ==
    ASSUME DiskInv, UNCHANGED <<catalog, active, phase, mem, flag, pc, loc, disturbed, stale>>
    PROVE  DiskInv'
<1>1. UNCHANGED <<AllIdle, Calm>>
  BY DEF AllIdle, Calm
<1>2. \A c \in Conns : TrackDisk(c) => TrackDisk(c)'
  BY DEF mem, TrackDisk, Agrees, ModeAgrees
<1>3. Agrees(curSlug) => Agrees(curSlug)'
  BY DEF mem, Agrees, ModeAgrees
<1> QED
  BY <1>1, <1>2, <1>3 DEF DiskInv, mem

LEMMA StartupDisk ==
    ASSUME SafeInv, MarkerInv, DiskInv, Startup \/ Operator \/ Crash PROVE DiskInv'
<1>0. ASSUME AllIdle', phase' = "serving",
             Calm' /\ ~stale' => (curSlug # None => Agrees(curSlug))'
      PROVE  DiskInv'
  BY <1>0 DEF DiskInv, AllIdle, TrackDisk
<1>1. ASSUME NEW f, Start(f) PROVE DiskInv'
  BY <1>1 DEF Start, Resolved, DiskInv, Calm
<1>2. ASSUME BootActive PROVE DiskInv'
  <2>1. (Agrees(active))'
    BY <1>2 DEF BootActive, Adopt, DiskInv, Agrees, ModeAgrees, cmdline
  <2> QED
    BY <1>0, <1>2, <2>1 DEF BootActive, Adopt, MarkerInv, AllIdle
<1>3. ASSUME BootEmpty \/ MigrateFail PROVE DiskInv'
  BY <1>0, <1>3 DEF BootEmpty, MigrateFail, MayMigrate, MarkerInv, AllIdle
<1>4. ASSUME MigrateAdd PROVE DiskInv'
  BY <1>4 DEF MigrateAdd, MayMigrate, DiskInv, Calm, cmdline
<1>5. ASSUME MigrateSetActive PROVE DiskInv'
  <2>1. (Agrees(DefaultSlug))'
    BY <1>5 DEF MigrateSetActive, SetActive, Adopt, DiskInv, Agrees, ModeAgrees, cmdline,
       DefaultSlug
  <2> QED
    BY <1>0, <1>5, <2>1 DEF MigrateSetActive, Adopt, MarkerInv, AllIdle
<1>6. ASSUME Crash PROVE DiskInv'
  BY <1>6 DEF Crash, DiskInv, Calm
<1>7. ASSUME Operator PROVE DiskInv'
  BY <1>7, DiskUntouched DEF Operator, EditConfig, MendConfig, cmdline
<1> QED
  BY <1>1, <1>2, <1>3, <1>4, <1>5, <1>6, <1>7 DEF Startup

LEMMA RequestDisk ==
    ASSUME SafeInv, MarkerInv, DiskInv, NEW c \in Conns, Request(c) PROVE DiskInv'
<1> USE NoLocTyped
<1>0. CatalogInv /\ curSlug \in Slugs \cup {None}
  BY DEF SafeInv, MemInv
<1>a. ASSUME Calm, AllIdle, ~stale, curSlug # None
      PROVE  Agrees(curSlug) /\ curSlug \in Slugs
  BY <1>0, <1>a DEF DiskInv
<1>1. ASSUME NEW b \in Bundles, ImportRead(c, b) PROVE DiskInv'
  <2> DEFINE at == IF curSlug # None THEN "importList" ELSE "importDefault"
             l == [NoLoc EXCEPT !.slug = curSlug, !.mode = curMode, !.bundle = b]
  <2>1. Enter(c, at, l) /\ UNCHANGED <<catalog, active, mem, stale>>
    BY <1>1 DEF ImportRead, mem
  <2>2. l.mode = curMode
    BY DEF NoLoc
  <2> HIDE DEF l
  <2> QED
    <3>1. UNCHANGED <<catalog, curSlug, curBundle, curMode, flag, stale>>
      BY <2>1 DEF Enter, FlagAt, mem
    <3>2. Calm' /\ ~stale' => (curSlug # None => Agrees(curSlug))'
      BY <1>a, <2>1, <3>1, EntersAlone, AgreesStill
    <3> QED
      BY <2>1, <2>2, <3>1, <3>2, EntersAlone, DiskFollowed DEF TrackDisk
<1>2. ASSUME NEW n \in Names, NEW m \in Modes, NEW b \in Bundles, NEW r \in BOOLEAN,
             NEW sa \in BOOLEAN, AddProfile(c, n, m, b, r, sa)
      PROVE  DiskInv'
  <2> DEFINE at == IF sa THEN "switchLoad" ELSE "idle"
             l == IF sa THEN [NoLoc EXCEPT !.slug = SlugOf[n]] ELSE NoLoc
  <2>1. Enter(c, at, l) /\ UNCHANGED mem /\ (~stale' => ~stale /\ curSlug # SlugOf[n])
    BY <1>2 DEF AddProfile
  <2>2. \A u \in Slugs \ {SlugOf[n]} : catalog'[u] = catalog[u]
    BY <1>0, <1>2, AddEffect DEF AddProfile
  <2> HIDE DEF l
  <2>3. Calm' /\ ~stale' => (curSlug # None => Agrees(curSlug))'
    BY <1>a, <2>1, <2>2, EntersAlone DEF Agrees, ModeAgrees, mem, Enter, FlagAt
  <2> QED
    BY <2>1, <2>3, EntersAlone, DiskFollowed DEF TrackDisk
<1>3. ASSUME NEW s \in Slugs, SetActiveProfile(c, s) PROVE DiskInv'
  <2> DEFINE l == [NoLoc EXCEPT !.slug = s]
  <2>1. Enter(c, "switchLoad", l) /\ UNCHANGED <<catalog, active, mem, stale>>
    BY <1>3 DEF SetActiveProfile, mem
  <2> HIDE DEF l
  <2> QED
    BY <1>a, <2>1, EntersAlone, DiskFollowed, AgreesStill DEF TrackDisk, Enter, FlagAt, mem
<1>4. ASSUME NEW s \in Slugs, RemoveProfile(c, s) PROVE DiskInv'
  <2> DEFINE at == IF s = curSlug THEN "removeClear" ELSE "removeStore"
             l == [NoLoc EXCEPT !.slug = s]
  <2>1. Enter(c, at, l) /\ UNCHANGED <<catalog, active, mem, stale>>
    BY <1>4 DEF RemoveProfile, mem
  <2> HIDE DEF l
  <2> QED
    BY <1>a, <2>1, EntersAlone, DiskFollowed, AgreesStill DEF TrackDisk, Enter, FlagAt, mem
<1>5. ASSUME NEW s \in Slugs, NEW n \in Names, RenameProfile(c, s, n) PROVE DiskInv'
  <2> DEFINE l == [NoLoc EXCEPT !.slug = s, !.name = n]
  <2>1. Enter(c, "renameCheck", l) /\ UNCHANGED <<mem, stale>>
    BY <1>5 DEF RenameProfile, mem
  <2>2. l.slug = s /\ l.name = n
    BY DEF NoLoc
  <2>3. /\ SlugOf[n] \in Slugs /\ (SlugOf[n] # s => ~Installed(SlugOf[n]))
        /\ catalog'[SlugOf[n]].bundle = catalog[s].bundle
        /\ catalog'[SlugOf[n]].meta.mode = catalog[s].meta.mode
        /\ \A u \in Slugs \ {s, SlugOf[n]} : catalog'[u] = catalog[u]
    BY <1>0, <1>5, RenameEffect DEF RenameProfile
  <2> HIDE DEF l
  <2>4. ASSUME Calm', ~stale', curSlug # None
        PROVE  IF curSlug = s THEN Agrees(SlugOf[n])' ELSE Agrees(curSlug)'
    <3>1. Agrees(curSlug) /\ curSlug \in Slugs /\ Installed(curSlug)
      BY <1>a, <2>1, <2>4, EntersAlone DEF Follows, Marked
    <3>2. UNCHANGED <<curSlug, curBundle, curMode, flag>>
      BY <2>1 DEF mem, Enter, FlagAt
    <3> QED
      BY <2>3, <3>1, <3>2 DEF Agrees, ModeAgrees
  <2> QED
    BY <2>1, <2>2, <2>4, EntersAlone, DiskFollowed DEF TrackDisk, mem
<1>6. ASSUME NEW m \in Modes, SetMode(c, m) PROVE DiskInv'
  <2> DEFINE l == [NoLoc EXCEPT !.mode = m]
  <2>1. /\ Enter(c, "modeRead", l) /\ curMode' = m
        /\ UNCHANGED <<catalog, active, curSlug, curBundle, stale>>
    BY <1>6 DEF SetMode
  <2>2. l.mode = m
    BY DEF NoLoc
  <2> HIDE DEF l
  <2> QED
    BY <1>a, <2>1, <2>2, EntersAlone, DiskFollowed DEF TrackDisk, Agrees
<1>7. ASSUME NEW i \in Intents, SetRosenpass(c, i) PROVE DiskInv'
  <2> DEFINE at == IF curSlug # None THEN "rosenpassMeta" ELSE "idle"
             l == IF curSlug # None THEN [NoLoc EXCEPT !.slug = curSlug, !.rosenpass = i]
                                    ELSE NoLoc
  <2>1. /\ Enter(c, at, l)
        /\ UNCHANGED <<catalog, active, curSlug, curBundle, curMode, stale>>
    BY <1>7 DEF SetRosenpass
  <2> HIDE DEF l
  <2> QED
    BY <1>a, <2>1, EntersAlone, DiskFollowed, AgreesStill DEF TrackDisk, Enter, FlagAt
<1>8. ASSUME NEW n \in Names, NEW b \in Bundles, NEW r \in BOOLEAN, AddProfileFails(c, n, b, r)
      PROVE  DiskInv'
  BY <1>8, DiskFollowed DEF AddProfileFails, EnterFailing, Calm
<1>9. ASSUME NEW s \in Slugs, NEW n \in Names, RenameProfileFails(c, s, n) PROVE DiskInv'
  BY <1>9, DiskFollowed DEF RenameProfileFails, EnterFailing, Calm
<1> QED
  BY <1>1, <1>2, <1>3, <1>4, <1>5, <1>6, <1>7, <1>8, <1>9 DEF Request

LEMMA HandleDisk ==
    ASSUME SafeInv, MarkerInv, DiskInv, NEW c \in Conns, Handle(c) PROVE DiskInv'
<1> DEFINE here == loc[c]
<1>0. /\ Fits(pc[c], here) /\ CatalogInv /\ curSlug \in Slugs \cup {None}
      /\ DefaultSlug \in Slugs
  BY DEF SafeInv, MemInv, HandlersInv, DefaultSlug
<1>a. ASSUME Calm, ~stale PROVE TrackDisk(c)
  BY <1>a DEF DiskInv
<1>b. /\ FlagAt("idle") = flag /\ FlagAt("importReplace") = flag
      /\ FlagAt("importAdopt") = flag /\ FlagAt("importDefaultReplace") = flag
      /\ FlagAt("importActivate") = flag /\ FlagAt("importAdoptSlug") = flag
      /\ FlagAt("switchAdopt") = flag /\ FlagAt("removeStore") = flag
      /\ FlagAt("renameSlug") = flag /\ FlagAt("modeMeta") = flag /\ FlagAt("modeSave") = flag
  BY DEF FlagAt
<1> HIDE DEF here
<1>1. ASSUME ImportList(c) PROVE DiskInv'
  <2> DEFINE l == IF Installed(here.slug)
                    THEN [here EXCEPT !.name = catalog[here.slug].meta.name,
                                      !.mode = catalog[here.slug].meta.mode]
                    ELSE [here EXCEPT !.name = SlugName[here.slug]]
  <2>1. /\ Goto(c, "importList", "importReplace", l) /\ UNCHANGED <<catalog, active, mem,
                                                                    stale>>
        /\ Installed(here.slug) => l.mode = catalog[here.slug].meta.mode
    BY <1>1, <1>0 DEF ImportList, here, Fits, Locals, mem
  <2> HIDE DEF l
  <2>2. here.slug \in Slugs
    BY <1>0, <2>1 DEF Goto, Fits, SlugSteps
  <2>3. UNCHANGED <<curSlug, curBundle, curMode, flag>>
    BY <1>b, <2>1 DEF Goto, mem
  <2>4. ASSUME Calm', ~stale'
        PROVE  (Agrees(curSlug) /\ loc[c].mode = catalog[curSlug].meta.mode)'
    <3>1. curSlug = here.slug /\ Installed(here.slug) /\ TrackDisk(c) /\ pc[c] = "importList"
      BY <1>0, <1>a, <2>1, <2>2, <2>4, GoesAlone DEF Track, Marked, here
    <3>2. Agrees(curSlug)
      BY <2>2, <3>1 DEF TrackDisk
    <3> QED
      BY <2>1, <2>2, <2>3, <3>1, <3>2, AgreesStill, GoesAlone
  <2> QED
    BY <2>1, <2>4, GoesAlone, DiskFollowed DEF TrackDisk
<1>2. ASSUME ImportReplace(c) PROVE DiskInv'
  <2>1. /\ Goto(c, "importReplace", "importAdopt", here) /\ UNCHANGED <<mem, stale>>
        /\ Add(here.name, here.mode, here.bundle, TRUE)
    BY <1>2 DEF ImportReplace, here, mem
  <2>2. /\ here.name \in Names /\ here.mode \in Modes /\ here.bundle \in Bundles
        /\ SlugOf[here.name] = here.slug
    BY <1>0, <2>1 DEF Goto, Fits, ImportSteps
  <2>3. catalog'[here.slug].bundle = here.bundle /\ catalog'[here.slug].meta.mode = here.mode
    <3>1. /\ catalog'[SlugOf[here.name]].bundle = here.bundle
          /\ catalog'[SlugOf[here.name]].meta.mode = here.mode
      BY <1>0, <2>1, <2>2, AddStores, Zenon
    <3> QED
      BY <2>2, <3>1
  <2>4. UNCHANGED <<curSlug, curBundle, curMode, flag>>
    BY <1>b, <2>1 DEF Goto, mem
  <2>5. ASSUME Calm', ~stale'
        PROVE  (catalog[curSlug].bundle = loc[c].bundle /\ ModeAgrees(curSlug))'
    <3>1. curSlug = here.slug /\ TrackDisk(c) /\ pc[c] = "importReplace" /\ loc'[c] = here
      BY <1>a, <2>1, <2>5, GoesAlone DEF Track, here
    <3> QED
      BY <2>3, <2>4, <3>1 DEF TrackDisk, Agrees, ModeAgrees, here
  <2> QED
    BY <2>1, <2>5, GoesAlone, DiskFollowed DEF TrackDisk
<1>3. ASSUME ImportAdopt(c) PROVE DiskInv'
  <2>1. /\ Goto(c, "importAdopt", "idle", NoLoc) /\ curBundle' = here.bundle
        /\ UNCHANGED <<catalog, curSlug, curMode, stale>>
    BY <1>3 DEF ImportAdopt, Return, here
  <2>2. flag' = flag
    BY <1>b, <2>1 DEF Goto
  <2>3. ASSUME Calm', ~stale' PROVE Agrees(curSlug)'
    BY <1>a, <2>1, <2>2, <2>3, GoesAlone DEF TrackDisk, Agrees, ModeAgrees, here
  <2> QED
    BY <2>1, <2>3, GoesAlone, DiskFollowed DEF TrackDisk
<1>4. ASSUME ImportDefault(c) PROVE DiskInv'
  <2>1. UNCHANGED <<curMode, stale>>
    BY <1>4 DEF ImportDefault
  <2>2. CASE Installed(DefaultSlug)
    <3>1. Goto(c, "importDefault", "importDefaultReplace", here)
      BY <1>4, <2>2 DEF ImportDefault, here
    <3> QED
      BY <1>a, <2>1, <3>1, GoesAlone, DiskFollowed DEF TrackDisk, here
  <2>3. CASE ~Installed(DefaultSlug)
    <3>1. /\ Goto(c, "importDefault", "importActivate", here)
          /\ Add(DefaultName, here.mode, here.bundle, FALSE)
      BY <1>4, <2>3 DEF ImportDefault, here
    <3>2. here.mode \in Modes /\ here.bundle \in Bundles
      BY <1>0, <3>1 DEF Goto, Fits, ImportSteps
    <3>3. /\ catalog'[DefaultSlug].bundle = here.bundle
          /\ catalog'[DefaultSlug].meta.mode = here.mode
      BY <1>0, <3>1, <3>2, AddStores DEF DefaultSlug
    <3> QED
      BY <1>a, <2>1, <3>1, <3>3, GoesAlone, DiskFollowed DEF TrackDisk, here
  <2> QED
    BY <2>2, <2>3
<1>5. ASSUME ImportDefaultReplace(c) PROVE DiskInv'
  <2>1. /\ Goto(c, "importDefaultReplace", "importActivate", here)
        /\ Add(DefaultName, here.mode, here.bundle, TRUE) /\ UNCHANGED <<curMode, stale>>
    BY <1>5 DEF ImportDefaultReplace, here
  <2>2. here.mode \in Modes /\ here.bundle \in Bundles
    BY <1>0, <2>1 DEF Goto, Fits, ImportSteps
  <2>3. /\ catalog'[DefaultSlug].bundle = here.bundle
        /\ catalog'[DefaultSlug].meta.mode = here.mode
    BY <1>0, <2>1, <2>2, AddStores DEF DefaultSlug
  <2> QED
    BY <1>a, <2>1, <2>3, GoesAlone, DiskFollowed DEF TrackDisk, here
<1>6. ASSUME ImportActivate(c) PROVE DiskInv'
  <2>1. UNCHANGED <<catalog, curSlug, curMode, stale>>
    BY <1>6 DEF ImportActivate, SetActive
  <2>2. CASE Installed(DefaultSlug)
    <3>1. Goto(c, "importActivate", "importAdoptSlug", here)
      BY <1>6, <2>2 DEF ImportActivate, here
    <3> QED
      BY <1>a, <2>1, <3>1, GoesAlone, DiskFollowed DEF TrackDisk, here
  <2>3. CASE ~Installed(DefaultSlug)
    <3>1. Goto(c, "importActivate", "idle", NoLoc)
      BY <1>6, <2>3 DEF ImportActivate, Return
    <3> QED
      BY <2>1, <3>1, GoesAlone, DiskFollowed DEF Track, TrackDisk
  <2> QED
    BY <2>2, <2>3
<1>7. ASSUME ImportAdoptSlug(c) PROVE DiskInv'
  <2>1. /\ Goto(c, "importAdoptSlug", "idle", NoLoc)
        /\ curSlug' = DefaultSlug /\ curBundle' = here.bundle
        /\ UNCHANGED <<catalog, curMode, stale>>
    BY <1>7 DEF ImportAdoptSlug, Return, here
  <2>2. ASSUME Calm', ~stale' PROVE Agrees(curSlug)'
    BY <1>a, <2>1, <2>2, GoesAlone DEF TrackDisk, Agrees, ModeAgrees, here
  <2> QED
    BY <2>1, <2>2, GoesAlone, DiskFollowed DEF TrackDisk
<1>8. ASSUME SwitchLoad(c) PROVE DiskInv'
  <2>1. PICK to, l : /\ Goto(c, "switchLoad", to, l) /\ to \in {"switchAdopt", "idle"}
                     /\ UNCHANGED <<catalog, active, mem, stale>>
    BY <1>8 DEF SwitchLoad, Return, mem
  <2>2. UNCHANGED <<curSlug, curBundle, curMode, flag>>
    BY <1>b, <2>1 DEF Goto, mem
  <2>3. ASSUME Calm', ~stale' PROVE (curSlug # None => Agrees(curSlug))'
    BY <1>0, <1>a, <2>1, <2>2, <2>3, GoesAlone, AgreesStill DEF TrackDisk
  <2> QED
    BY <2>1, <2>3, GoesAlone, DiskFollowed DEF TrackDisk
<1>9. ASSUME SwitchAdopt(c) PROVE DiskInv'
  <2>1. PICK l : Goto(c, "switchAdopt", "switchMark", l)
    BY <1>9 DEF SwitchAdopt
  <2>2. /\ curSlug' = here.slug /\ curBundle' = here.bundle /\ curMode' = here.mode
        /\ UNCHANGED catalog
    BY <1>9 DEF SwitchAdopt, here
  <2>3. ASSUME Calm' PROVE Agrees(curSlug)'
    BY <2>1, <2>2, <2>3, GoesAlone DEF Track, Agrees, ModeAgrees, here
  <2> QED
    BY <2>1, <2>3, GoesAlone, DiskFollowed DEF TrackDisk
<1>10. ASSUME SwitchMark(c) PROVE DiskInv'
  <2>1. Goto(c, "switchMark", "idle", NoLoc) /\ UNCHANGED <<catalog, mem, stale>>
    BY <1>10 DEF SwitchMark, SetActive, Return, mem
  <2>2. UNCHANGED <<curSlug, curBundle, curMode, flag>>
    BY <1>b, <2>1 DEF Goto, mem
  <2>3. ASSUME Calm', ~stale' PROVE (curSlug # None => Agrees(curSlug))'
    BY <1>0, <1>a, <2>1, <2>2, <2>3, GoesAlone, AgreesStill DEF TrackDisk
  <2> QED
    BY <2>1, <2>3, GoesAlone, DiskFollowed DEF TrackDisk
<1>11. ASSUME RemoveClear(c) PROVE DiskInv'
  <2>1. Goto(c, "removeClear", "removeStore", here) /\ curSlug' = None
    BY <1>11 DEF RemoveClear, here
  <2> QED
    BY <2>1, GoesAlone, DiskFollowed DEF TrackDisk
<1>12. ASSUME RemoveStore(c) PROVE DiskInv'
  <2>1. Goto(c, "removeStore", "idle", NoLoc) /\ UNCHANGED <<mem, stale>>
    BY <1>12 DEF RemoveStore, Return, mem
  <2>2. here.slug \in Slugs
    BY <1>0, <2>1 DEF Goto, Fits, SlugSteps
  <2>3. \A u \in Slugs \ {here.slug} : catalog'[u] = catalog[u]
    BY <1>0, <1>12, <2>2, RemoveEffect DEF RemoveStore, here
  <2>4. UNCHANGED <<curSlug, curBundle, curMode, flag>>
    BY <1>b, <2>1 DEF Goto, mem
  <2>5. ASSUME Calm', ~stale', curSlug # None PROVE Agrees(curSlug)'
    <3>1. here.slug # curSlug /\ Agrees(curSlug)
      BY <1>0, <1>a, <2>1, <2>5, GoesAlone DEF Track, TrackDisk, here
    <3> QED
      BY <1>0, <2>3, <2>4, <2>5, <3>1 DEF Agrees, ModeAgrees
  <2> QED
    BY <2>1, <2>4, <2>5, GoesAlone, DiskFollowed DEF TrackDisk
<1>13. ASSUME RenameCheck(c) PROVE DiskInv'
  <2>1. /\ IF curSlug = here.slug THEN Goto(c, "renameCheck", "renameSlug", here)
                                  ELSE Goto(c, "renameCheck", "idle", NoLoc)
        /\ UNCHANGED <<catalog, active, mem, stale>>
    BY <1>13 DEF RenameCheck, Return, here, mem
  <2>2. UNCHANGED <<curSlug, curBundle, curMode, flag>>
    BY <1>b, <2>1 DEF Goto, mem
  <2>3. pc[c] = "renameCheck"
    BY <2>1 DEF Goto
  <2>4. SlugOf[here.name] \in Slugs
    BY <1>0, <2>3 DEF Fits
  <2>5. CASE curSlug = here.slug
    BY <1>a, <2>1, <2>2, <2>3, <2>4, <2>5, GoesAlone, DiskFollowed, AgreesStill
       DEF TrackDisk, here
  <2>6. CASE curSlug # here.slug
    <3>1. ASSUME Calm', ~stale' PROVE (curSlug # None => Agrees(curSlug))'
      BY <1>0, <1>a, <2>1, <2>2, <2>3, <2>6, <3>1, GoesAlone, AgreesStill DEF TrackDisk,
         here
    <3> QED
      BY <2>1, <2>6, <3>1, GoesAlone, DiskFollowed DEF TrackDisk
  <2> QED
    BY <2>5, <2>6
<1>14. ASSUME RenameSlug(c) PROVE DiskInv'
  <2>1. /\ Goto(c, "renameSlug", "idle", NoLoc) /\ curSlug' = SlugOf[here.name]
        /\ UNCHANGED <<catalog, curBundle, curMode, stale>>
    BY <1>14 DEF RenameSlug, Return, here
  <2>2. flag' = flag
    BY <1>b, <2>1 DEF Goto
  <2>3. ASSUME Calm', ~stale' PROVE Agrees(curSlug)'
    BY <1>a, <2>1, <2>2, <2>3, GoesAlone DEF TrackDisk, Agrees, ModeAgrees, here
  <2> QED
    BY <2>1, <2>3, GoesAlone, DiskFollowed DEF TrackDisk
<1>15. ASSUME ModeRead(c) PROVE DiskInv'
  <2>1. PICK l : /\ Goto(c, "modeRead", IF curSlug # None THEN "modeMeta" ELSE "modeSave", l)
                 /\ l.mode = here.mode /\ l.slug = curSlug /\ UNCHANGED <<catalog, active, mem, stale>>
    BY <1>15, <1>0 DEF ModeRead, here, Fits, Locals, mem
  <2>2. UNCHANGED <<curSlug, curBundle, curMode>>
    BY <2>1 DEF mem
  <2> QED
    BY <1>a, <2>1, <2>2, GoesAlone, DiskFollowed DEF TrackDisk, here
<1>16. ASSUME ModeMeta(c) PROVE DiskInv'
  <2>1. Goto(c, "modeMeta", "modeSave", here) /\ UNCHANGED <<mem, stale>>
    BY <1>16 DEF ModeMeta, here, mem
  <2>2. here.slug \in Slugs /\ here.mode \in Modes
    BY <1>0, <2>1 DEF Goto, Fits, SlugSteps
  <2>3. ASSUME Installed(here.slug)
        PROVE  /\ catalog'[here.slug].bundle = catalog[here.slug].bundle
               /\ catalog'[here.slug].meta.mode = here.mode
    <3>1. UpdateMode(here.slug, here.mode)
      BY <1>16, <2>3 DEF ModeMeta, here
    <3> QED
      BY <1>0, <2>2, <3>1, UpdateModeEffect
  <2>4. ASSUME Calm', ~stale' PROVE Agrees(curSlug)'
    <3>1. /\ curSlug = here.slug /\ here.mode = curMode
          /\ curBundle = catalog[curSlug].bundle /\ Follows
      BY <1>0, <1>a, <2>1, <2>2, <2>4, GoesAlone DEF Track, TrackDisk, here
    <3>2. Installed(here.slug)
      BY <2>2, <3>1 DEF Follows, Marked
    <3> QED
      BY <2>1, <2>3, <3>1, <3>2 DEF Agrees, ModeAgrees, mem
  <2> QED
    BY <2>1, <2>4, GoesAlone, DiskFollowed DEF TrackDisk
<1>17. ASSUME ModeSave(c) PROVE DiskInv'
  <2>1. Goto(c, "modeSave", "idle", NoLoc) /\ UNCHANGED <<catalog, active, mem, stale>>
    BY <1>17 DEF ModeSave, Return, mem
  <2>2. UNCHANGED <<curSlug, curBundle, curMode, flag>>
    BY <1>b, <2>1 DEF Goto, mem
  <2>3. ASSUME Calm', ~stale' PROVE (curSlug # None => Agrees(curSlug))'
    BY <1>0, <1>a, <2>1, <2>2, <2>3, GoesAlone, AgreesStill DEF TrackDisk
  <2> QED
    BY <2>1, <2>3, GoesAlone, DiskFollowed DEF TrackDisk
<1>18. ASSUME RosenpassMeta(c) PROVE DiskInv'
  <2>1. Goto(c, "rosenpassMeta", "idle", NoLoc) /\ UNCHANGED <<mem, stale>>
    BY <1>18 DEF RosenpassMeta, Return, mem
  <2>2. here.slug \in Slugs /\ here.rosenpass \in Intents
    BY <1>0, <2>1 DEF Goto, Fits, SlugSteps
  <2>3. \A u \in Slugs : /\ catalog'[u].bundle = catalog[u].bundle
                         /\ catalog'[u].meta.mode = catalog[u].meta.mode
    BY <1>0, <1>18, <2>2, UpdateRosenpassEffect DEF RosenpassMeta, here
  <2>4. UNCHANGED <<curSlug, curBundle, curMode, flag>>
    BY <1>b, <2>1 DEF Goto, mem
  <2>5. ASSUME Calm', ~stale', curSlug # None PROVE Agrees(curSlug)'
    <3>1. Agrees(curSlug) /\ curSlug \in Slugs
      BY <1>0, <1>a, <2>1, <2>5, GoesAlone DEF TrackDisk
    <3> QED
      BY <2>3, <2>4, <3>1 DEF Agrees, ModeAgrees
  <2> QED
    BY <2>1, <2>4, <2>5, GoesAlone, DiskFollowed DEF TrackDisk
<1>19. ASSUME StoreError(c) PROVE DiskInv'
  <2>1. phase = "serving"
    BY <1>19 DEF StoreError, StoreWrites, MarkerInv, AllIdle
  <2> QED
    BY <1>19, <2>1, DiskFollowed DEF StoreError, Calm
<1> QED
  BY <1>1, <1>2, <1>3, <1>4, <1>5, <1>6, <1>7, <1>8, <1>9, <1>10,
     <1>11, <1>12, <1>13, <1>14, <1>15, <1>16, <1>17, <1>18, <1>19 DEF Handle

LEMMA NextDisk == SafeInv /\ MarkerInv /\ DiskInv /\ [Next]_vars => DiskInv'
<1> SUFFICES ASSUME SafeInv, MarkerInv, DiskInv, [Next]_vars PROVE DiskInv'
  OBVIOUS
<1>1. CASE UNCHANGED vars
  BY <1>1, DiskUntouched DEF vars, cmdline
<1> QED
  BY <1>1, StartupDisk, RequestDisk, HandleDisk DEF Next

(***************************************************************************)
(* The bundle and the mode in memory are those a restart would read back,  *)
(* under the conditions of MemoryMatchesDisk.                              *)
(***************************************************************************)
THEOREM RunsWhatIsStored == Spec => []MemoryMatchesDisk
<1>1. Init => MarkerInv /\ DiskInv
  BY DEF Init, MarkerInv, DiskInv, AllIdle, Calm
<1>2. Spec => []SafeInv
  BY InitSafe, NextSafe, PTL DEF Spec
<1>3. Spec => []MarkerInv
  BY <1>1, <1>2, NextMarker, PTL DEF Spec
<1>4. DiskInv => MemoryMatchesDisk
  BY DEF DiskInv, MemoryMatchesDisk, Quiet, Calm, AllIdle, Agrees, ModeAgrees
<1> QED
  BY <1>1, <1>2, <1>3, <1>4, NextDisk, PTL DEF Spec

=============================================================================

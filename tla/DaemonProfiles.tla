--------------------------- MODULE DaemonProfiles ---------------------------
(***************************************************************************)
(* The daemon's profile handlers (internal/daemon/daemon.go) over the      *)
(* profile catalogue: what the daemon holds in memory (currentSlug,        *)
(* currentBundle, currentMode, rosenpassOverride) against what the store   *)
(* holds on disk.                                                          *)
(*                                                                         *)
(* The IPC server runs one goroutine per connection and calls the handlers *)
(* without a lock of its own; a handler takes d.mu or the store's lock for *)
(* one section at a time.  A step here is one such section, so handlers of *)
(* two connections interleave between them.  A crash falls between two     *)
(* sections or inside one, and a failing write ends a store operation in   *)
(* the middle: what either leaves on disk is what ProfileCatalog's Abort   *)
(* actions say, which ProfileStore is shown to implement write by write.   *)
(* The legs a handler brings up or down on the way are the business of     *)
(* DaemonLegs; they leave this state alone.                                *)
(***************************************************************************)
EXTENDS ProfileCatalog, Naturals

CONSTANTS
    Conns,          \* IPC connections
    DefaultName,    \* the name "default" of an imported or migrated profile
    SlugName,       \* slug -> that slug read as a name (ImportBundle's fallback)
    Legacy,         \* the v0.1.x bundle.cbor, None when there is none
    DefaultMode,    \* mode.Default
    FlagModes,      \* values of the --mode flag, None when it is not given
    MaxEdits,       \* bound on the operator's edits of config.toml
    StoreMayFail    \* whether a store write may return an error

ASSUME DaemonAssumption ==
    /\ DefaultName \in Names /\ SlugOf[DefaultName] \in Slugs
    /\ SlugName \in [Slugs -> Names]
    /\ \A s \in Slugs : SlugOf[SlugName[s]] = s
    /\ Legacy \in Bundles \cup {None}
    /\ StoreMayFail \in BOOLEAN
    /\ DefaultMode \in Modes /\ FlagModes \subseteq Modes \cup {None} /\ MaxEdits \in Nat

VARIABLES
    phase,          \* "down", "loaded" (New is done), "migrating" or "serving"
    curSlug, curBundle, curMode, override,      \* the daemon's memory
    config,         \* config.toml: whether it parses, its mode key (None: absent), and
                    \* which edit of the operator's its mesh_dns keys are from
    edits,          \* the operator's edits so far
    flag,           \* --mode of this process, None once a handler has set another mode
    persisted,      \* the mesh_dns keys of persistedCfg
    pc, loc,        \* per connection: where its handler stands, its locals
    disturbed,      \* history, since start-up: handlers overlapped or a write failed
    stale,          \* history: AddProfile replaced the active profile's files
                    \* without switching to them
    torn,           \* history: slugs that a store operation cut short has left
                    \* unloadable, until a whole operation on them
    unadopted       \* history: start-up met a marker it could not load, and no
                    \* profile has been adopted since

mem == <<curSlug, curBundle, curMode, override>>
cmdline == <<edits, flag, persisted>>
vars == <<catalog, active, phase, mem, config, cmdline, pc, loc, disturbed, stale, torn,
          unadopted>>

DefaultSlug == SlugOf[DefaultName]

NoLoc == [slug |-> None, name |-> None, mode |-> None, bundle |-> None,
          rosenpass |-> None]

Init ==
    /\ CInit
    /\ phase = "down"
    /\ config \in [ok : {TRUE}, mode : Modes \cup {None}, dns : {0}]
    /\ edits = 0 /\ flag = None /\ persisted = 0
    /\ curSlug = None /\ curBundle = None /\ curMode = None /\ override = None
    /\ pc = [c \in Conns |-> "idle"]
    /\ loc = [c \in Conns |-> NoLoc]
    /\ disturbed = FALSE
    /\ stale = FALSE
    /\ torn = {} /\ unadopted = FALSE

-----------------------------------------------------------------------------
(* Control. *)

(* SetMode and a profile switch put another mode into memory than the flag's. *)
FlagAt(at) == IF at \in {"modeRead", "switchMark"} THEN None ELSE flag

Enter(c, at, l) ==
    /\ phase = "serving"
    /\ pc[c] = "idle"
    /\ pc' = [pc EXCEPT ![c] = at]
    /\ loc' = [loc EXCEPT ![c] = l]
    /\ disturbed' = (disturbed \/ \E d \in Conns \ {c} : pc[d] # "idle")
    /\ flag' = FlagAt(at)
    /\ UNCHANGED <<phase, config, edits, persisted>>

Goto(c, from, to, l) ==
    /\ pc[c] = from
    /\ pc' = [pc EXCEPT ![c] = to]
    /\ loc' = [loc EXCEPT ![c] = l]
    /\ flag' = FlagAt(to)
    /\ UNCHANGED <<phase, disturbed, edits, persisted>>

Return(c, from) == Goto(c, from, "idle", NoLoc)

(* A store operation at the start of a handler fails. *)
EnterFailing(c, at, l) ==
    /\ StoreMayFail
    /\ phase = "serving"
    /\ pc[c] = "idle"
    /\ pc' = [pc EXCEPT ![c] = at]
    /\ loc' = [loc EXCEPT ![c] = l]
    /\ disturbed' = TRUE
    /\ UNCHANGED <<phase, config, cmdline>>

-----------------------------------------------------------------------------
(* Store operations that run to their end, and ones that a failing write   *)
(* or the end of the process cuts short.                                   *)

Whole(S) == torn' = torn \ S

Tears(s) ==
    torn' = IF Loadable(s) /\ None \in {catalog'[s].bundle, catalog'[s].meta}
              THEN torn \cup {s} ELSE torn

AddCutShort(n, b, replace) == AbortAdd(n, b, replace) /\ Tears(SlugOf[n])

RemoveCutShort(s) == AbortRemove(s) /\ Tears(s)

RenameCutShort(s, n) == AbortRename(s, n) /\ Tears(s)

-----------------------------------------------------------------------------
(* New: the mode is the flag's, else config.toml's, else the default; a    *)
(* file that does not parse keeps the daemon from starting.                *)

ConfigParses == config.ok

Resolved(f) ==
    IF f # None THEN f ELSE IF config.mode # None THEN config.mode ELSE DefaultMode

Start(f) ==
    /\ phase = "down" /\ ConfigParses
    /\ phase' = "loaded"
    /\ flag' = f /\ persisted' = config.dns /\ curMode' = Resolved(f)
    /\ UNCHANGED <<catalog, active, curSlug, curBundle, override, config, edits, pc, loc,
                   disturbed, stale, torn, unadopted>>

-----------------------------------------------------------------------------
(* LoadPersistedBundle: the active profile if it loads; else, when no      *)
(* profile is listed, the legacy bundle becomes "default", in two writes.  *)

(* adoptProfile: the flag outranks the profile's mode. *)
Adopt(s, e) ==
    /\ curSlug' = s
    /\ curBundle' = e.bundle
    /\ curMode' = IF flag = None THEN e.meta.mode ELSE curMode
    /\ override' = e.meta.rosenpass

BootActive ==
    /\ phase = "loaded"
    /\ active # None /\ Loadable(active)
    /\ Adopt(active, catalog[active])
    /\ phase' = "serving"
    /\ UNCHANGED <<catalog, active, config, cmdline, pc, loc, disturbed, stale, torn,
                   unadopted>>

BootEmpty ==
    /\ phase = "loaded"
    /\ ~(active # None /\ Loadable(active))
    /\ (\E s \in Slugs : Installed(s)) \/ Legacy \notin Trusted
    /\ phase' = "serving"
    /\ unadopted' = (active # None)
    /\ UNCHANGED <<catalog, active, curSlug, curBundle, curMode, override, config, cmdline,
                   pc, loc, disturbed, stale, torn>>

MayMigrate ==
    /\ phase = "loaded"
    /\ ~(active # None /\ Loadable(active))
    /\ \A s \in Slugs : ~Installed(s)
    /\ Legacy # None

MigrateAdd ==
    /\ MayMigrate
    /\ Add(DefaultName, curMode, Legacy, FALSE)
    /\ Whole({DefaultSlug})
    /\ phase' = "migrating"
    /\ UNCHANGED <<curSlug, curBundle, curMode, override, config, cmdline, pc, loc,
                   disturbed, stale, unadopted>>

MigrateSetActive ==
    /\ phase = "migrating"
    /\ SetActive(DefaultSlug)
    /\ Adopt(DefaultSlug, catalog[DefaultSlug])
    /\ phase' = "serving"
    /\ UNCHANGED <<config, cmdline, pc, loc, disturbed, stale, torn, unadopted>>

(* The Add or the marker write fails: logged, and nothing is adopted. *)
MigrateFail ==
    /\ StoreMayFail
    /\ \/ phase = "migrating" /\ UNCHANGED <<catalog, active, torn>>
       \/ MayMigrate /\ AddCutShort(DefaultName, Legacy, FALSE)
    /\ phase' = "serving"
    /\ disturbed' = TRUE
    /\ UNCHANGED <<curSlug, curBundle, curMode, override, config, cmdline, pc, loc, stale,
                   unadopted>>

(* The store operation a handler is about to perform, cut short. *)
CutShort(c) ==
    \/ pc[c] = "importReplace" /\ AddCutShort(loc[c].name, loc[c].bundle, TRUE)
    \/ pc[c] = "importDefault" /\ AddCutShort(DefaultName, loc[c].bundle, FALSE)
    \/ pc[c] = "importDefaultReplace" /\ AddCutShort(DefaultName, loc[c].bundle, TRUE)
    \/ pc[c] = "removeStore" /\ RemoveCutShort(loc[c].slug)

(* AddProfile and RenameProfile begin with theirs. *)
CutShortAtEntry(c) ==
    /\ phase = "serving" /\ pc[c] = "idle"
    /\ \/ \E n \in Names, b \in Bundles, r \in BOOLEAN : AddCutShort(n, b, r)
       \/ \E s \in Slugs, n \in Names : RenameCutShort(s, n)

(* The process ends, inside a store operation or not: its memory is gone. *)
Crash ==
    /\ phase # "down"
    /\ \/ UNCHANGED <<catalog, active, torn>>
       \/ MayMigrate /\ AddCutShort(DefaultName, Legacy, FALSE)
       \/ \E c \in Conns : CutShort(c) \/ CutShortAtEntry(c)
    /\ phase' = "down"
    /\ curSlug' = None /\ curBundle' = None /\ curMode' = None /\ override' = None
    /\ flag' = None /\ persisted' = 0
    /\ pc' = [c \in Conns |-> "idle"]
    /\ loc' = [c \in Conns |-> NoLoc]
    /\ disturbed' = FALSE
    /\ stale' = FALSE
    /\ unadopted' = FALSE
    /\ UNCHANGED <<config, edits>>

(* The operator edits the mesh_dns keys, the daemon running or not, or     *)
(* breaks the file with it, and mends its mode line.                       *)
EditConfig(ok) ==
    /\ edits < MaxEdits
    /\ edits' = edits + 1
    /\ config' = [ok |-> ok, mode |-> IF ok THEN config.mode ELSE None, dns |-> edits + 1]
    /\ UNCHANGED <<catalog, active, phase, mem, flag, persisted, pc, loc, disturbed,
                   stale, torn, unadopted>>

MendConfig(m) ==
    /\ ~ConfigParses
    /\ config' = [config EXCEPT !.ok = TRUE, !.mode = m]
    /\ UNCHANGED <<catalog, active, phase, mem, cmdline, pc, loc, disturbed, stale, torn,
                   unadopted>>

-----------------------------------------------------------------------------
(* ImportBundle: replace the active profile's bundle, or create "default". *)

ImportRead(c, b) ==
    /\ b \in Trusted
    /\ Enter(c, IF curSlug # None THEN "importList" ELSE "importDefault",
             [NoLoc EXCEPT !.slug = curSlug, !.mode = curMode, !.bundle = b])
    /\ UNCHANGED <<catalog, active, curSlug, curBundle, curMode, override, stale, torn,
                   unadopted>>

(* profileInfoBySlug: the display name and mode of the slug, if still there. *)
ImportList(c) ==
    LET s == loc[c].slug IN
    /\ Goto(c, "importList", "importReplace",
            IF Installed(s)
              THEN [loc[c] EXCEPT !.name = catalog[s].meta.name,
                                  !.mode = catalog[s].meta.mode]
              ELSE [loc[c] EXCEPT !.name = SlugName[s]])
    /\ UNCHANGED <<catalog, active, curSlug, curBundle, curMode, override, config, stale,
                   torn, unadopted>>

ImportReplace(c) ==
    /\ Goto(c, "importReplace", "importAdopt", loc[c])
    /\ Add(loc[c].name, loc[c].mode, loc[c].bundle, TRUE)
    /\ Whole({SlugOf[loc[c].name]})
    /\ UNCHANGED <<curSlug, curBundle, curMode, override, config, stale, unadopted>>

ImportAdopt_Forgets(c) ==
    /\ Return(c, "importAdopt")
    /\ UNCHANGED <<catalog, active, curSlug, curBundle, curMode, override, config, stale,
                   torn, unadopted>>

ImportAdopt(c) ==
    /\ Return(c, "importAdopt")
    /\ curBundle' = loc[c].bundle
    /\ UNCHANGED <<catalog, active, curSlug, curMode, override, config, stale, torn,
                   unadopted>>

(* Refused because "default" exists unadopted: a second Add, with Replace. *)
ImportDefault(c) ==
    IF Installed(DefaultSlug)
      THEN /\ Goto(c, "importDefault", "importDefaultReplace", loc[c])
           /\ UNCHANGED <<catalog, active, curSlug, curBundle, curMode, override,
                          config, stale, torn, unadopted>>
      ELSE /\ Goto(c, "importDefault", "importActivate", loc[c])
           /\ Add(DefaultName, loc[c].mode, loc[c].bundle, FALSE)
           /\ Whole({DefaultSlug})
           /\ UNCHANGED <<curSlug, curBundle, curMode, override, config, stale, unadopted>>

ImportDefaultReplace(c) ==
    /\ Goto(c, "importDefaultReplace", "importActivate", loc[c])
    /\ Add(DefaultName, loc[c].mode, loc[c].bundle, TRUE)
    /\ Whole({DefaultSlug})
    /\ UNCHANGED <<curSlug, curBundle, curMode, override, config, stale, unadopted>>

ImportActivate(c) ==
    /\ IF Installed(DefaultSlug)
         THEN Goto(c, "importActivate", "importAdoptSlug", loc[c]) /\ SetActive(DefaultSlug)
         ELSE Return(c, "importActivate") /\ UNCHANGED <<catalog, active>>
    /\ UNCHANGED <<curSlug, curBundle, curMode, override, config, stale, torn, unadopted>>

ImportAdoptSlug(c) ==
    /\ Return(c, "importAdoptSlug")
    /\ curBundle' = loc[c].bundle
    /\ curSlug' = DefaultSlug
    /\ unadopted' = FALSE
    /\ UNCHANGED <<catalog, active, curMode, override, config, stale, torn>>

-----------------------------------------------------------------------------
(* AddProfile, with or without SetActive. *)

AddProfile(c, n, m, b, replace, setActive) ==
    /\ Add(n, m, b, replace)
    /\ Whole({SlugOf[n]})
    /\ IF setActive
         THEN Enter(c, "switchLoad", [NoLoc EXCEPT !.slug = SlugOf[n]])
         ELSE Enter(c, "idle", NoLoc)
    /\ stale' = (stale \/ SlugOf[n] = curSlug)
    /\ UNCHANGED <<mem, unadopted>>

AddProfileFails(c, n, b, replace) ==
    /\ AddCutShort(n, b, replace)
    /\ EnterFailing(c, "idle", NoLoc)
    /\ UNCHANGED <<mem, stale, unadopted>>

-----------------------------------------------------------------------------
(* setActiveLocked, shared by SetActiveProfile and AddProfile: load the    *)
(* target, tear down, adopt, bring up, write the marker last.              *)

SetActiveProfile(c, s) ==
    /\ Enter(c, "switchLoad", [NoLoc EXCEPT !.slug = s])
    /\ UNCHANGED <<catalog, active, curSlug, curBundle, curMode, override, stale, torn,
                   unadopted>>

SwitchLoad(c) ==
    LET s == loc[c].slug IN
    /\ pc[c] = "switchLoad"
    /\ IF Loadable(s)
         THEN Goto(c, "switchLoad", "switchAdopt",
                   [slug |-> s, name |-> catalog[s].meta.name,
                    mode |-> catalog[s].meta.mode, bundle |-> catalog[s].bundle,
                    rosenpass |-> catalog[s].meta.rosenpass])
         ELSE Return(c, "switchLoad")
    /\ UNCHANGED <<catalog, active, curSlug, curBundle, curMode, override, config, stale,
                   torn, unadopted>>

SwitchAdopt(c) ==
    /\ Goto(c, "switchAdopt", "switchMark", [NoLoc EXCEPT !.slug = loc[c].slug])
    /\ curSlug' = loc[c].slug
    /\ curBundle' = loc[c].bundle
    /\ curMode' = loc[c].mode
    /\ override' = loc[c].rosenpass
    /\ stale' = FALSE
    /\ unadopted' = FALSE
    /\ UNCHANGED <<catalog, active, config, torn>>

SwitchMark(c) ==
    /\ Return(c, "switchMark")
    /\ IF Installed(loc[c].slug) THEN SetActive(loc[c].slug)
                                 ELSE UNCHANGED <<catalog, active>>
    /\ UNCHANGED <<curSlug, curBundle, curMode, override, config, stale, torn, unadopted>>

-----------------------------------------------------------------------------
(* RemoveProfile: forget the profile first when it is the active one, then *)
(* delete it.  The override stays in memory.                               *)

RemoveProfile(c, s) ==
    /\ Enter(c, IF s = curSlug THEN "removeClear" ELSE "removeStore",
             [NoLoc EXCEPT !.slug = s])
    /\ UNCHANGED <<catalog, active, curSlug, curBundle, curMode, override, stale, torn,
                   unadopted>>

RemoveClear(c) ==
    /\ Goto(c, "removeClear", "removeStore", loc[c])
    /\ curBundle' = None
    /\ curSlug' = None
    /\ stale' = FALSE
    /\ UNCHANGED <<catalog, active, curMode, override, config, torn, unadopted>>

RemoveStore(c) ==
    /\ Return(c, "removeStore")
    /\ IF Installed(loc[c].slug) THEN Remove(loc[c].slug) /\ Whole({loc[c].slug})
                                 ELSE UNCHANGED <<catalog, active, torn>>
    /\ UNCHANGED <<curSlug, curBundle, curMode, override, config, stale, unadopted>>

-----------------------------------------------------------------------------
(* RenameProfile: the store first, then check currentSlug under the read   *)
(* lock, then overwrite it under the write lock.                           *)

RenameProfile(c, s, n) ==
    /\ \/ Rename(s, n) /\ Whole({s, SlugOf[n]})
       \/ RenameInPlace(s, n) /\ UNCHANGED torn
    /\ Enter(c, "renameCheck", [NoLoc EXCEPT !.slug = s, !.name = n])
    /\ UNCHANGED <<curSlug, curBundle, curMode, override, stale, unadopted>>

(* A failure to delete the old files is ignored, any other one returned. *)
RenameProfileFails(c, s, n) ==
    /\ RenameCutShort(s, n)
    /\ IF catalog'[SlugOf[n]].meta # None /\ active' # s
         THEN EnterFailing(c, "renameCheck", [NoLoc EXCEPT !.slug = s, !.name = n])
         ELSE EnterFailing(c, "idle", NoLoc)
    /\ UNCHANGED <<mem, stale, unadopted>>

RenameCheck_Never(c) ==
    /\ Return(c, "renameCheck")
    /\ UNCHANGED <<catalog, active, curSlug, curBundle, curMode, override, config, stale,
                   torn, unadopted>>

RenameCheck(c) ==
    /\ pc[c] = "renameCheck"
    /\ IF curSlug = loc[c].slug THEN Goto(c, "renameCheck", "renameSlug", loc[c])
                                ELSE Return(c, "renameCheck")
    /\ UNCHANGED <<catalog, active, curSlug, curBundle, curMode, override, config, stale,
                   torn, unadopted>>

RenameSlug(c) ==
    /\ Return(c, "renameSlug")
    /\ curSlug' = SlugOf[loc[c].name]
    /\ UNCHANGED <<catalog, active, curBundle, curMode, override, config, stale, torn,
                   unadopted>>

-----------------------------------------------------------------------------
(* SetMode: memory first; after the legs, the active profile's meta, then  *)
(* config.toml.                                                            *)

SetMode(c, m) ==
    /\ m # curMode
    /\ Enter(c, "modeRead", [NoLoc EXCEPT !.mode = m])
    /\ curMode' = m
    /\ UNCHANGED <<catalog, active, curSlug, curBundle, override, stale, torn, unadopted>>

ModeRead(c) ==
    /\ Goto(c, "modeRead", IF curSlug # None THEN "modeMeta" ELSE "modeSave",
            [loc[c] EXCEPT !.slug = curSlug])
    /\ UNCHANGED <<catalog, active, curSlug, curBundle, curMode, override, config, stale,
                   torn, unadopted>>

ModeMeta(c) ==
    /\ Goto(c, "modeMeta", "modeSave", loc[c])
    /\ IF Installed(loc[c].slug) THEN UpdateMode(loc[c].slug, loc[c].mode)
                                 ELSE UNCHANGED <<catalog, active>>
    /\ UNCHANGED <<curSlug, curBundle, curMode, override, config, stale, torn, unadopted>>

(* Save of persistedCfg, as loaded at start-up, with the new mode. *)
Saved_ModeOnly(m) == [ok |-> TRUE, mode |-> m, dns |-> 0]
Saved(m) == [ok |-> TRUE, mode |-> m, dns |-> persisted]

ModeSave(c) ==
    /\ Return(c, "modeSave")
    /\ config' = Saved(loc[c].mode)
    /\ UNCHANGED <<catalog, active, curSlug, curBundle, curMode, override, stale, torn,
                   unadopted>>

-----------------------------------------------------------------------------
(* SetRosenpass: memory first, then the meta of the slug read with it.     *)

SetRosenpass(c, i) ==
    /\ Enter(c, IF curSlug # None THEN "rosenpassMeta" ELSE "idle",
             IF curSlug # None THEN [NoLoc EXCEPT !.slug = curSlug, !.rosenpass = i]
                               ELSE NoLoc)
    /\ override' = i
    /\ UNCHANGED <<catalog, active, curSlug, curBundle, curMode, stale, torn, unadopted>>

RosenpassMeta(c) ==
    /\ Return(c, "rosenpassMeta")
    /\ IF Installed(loc[c].slug) THEN UpdateRosenpass(loc[c].slug, loc[c].rosenpass)
                                 ELSE UNCHANGED <<catalog, active>>
    /\ UNCHANGED <<curSlug, curBundle, curMode, override, config, stale, torn, unadopted>>

(* A store write fails, the first of its operation or a later one.  The    *)
(* handler returns the error, except where it only logs it and goes on to  *)
(* its next section.                                                       *)
StoreWrites == {"importReplace", "importDefault", "importDefaultReplace",
                "importActivate", "switchMark", "removeStore", "modeMeta",
                "modeSave", "rosenpassMeta"}

StoreError(c) ==
    /\ StoreMayFail
    /\ pc[c] \in StoreWrites
    /\ disturbed' = TRUE
    /\ UNCHANGED <<catalog, active, torn>> \/ CutShort(c)
    /\ IF pc[c] = "modeMeta"
         THEN pc' = [pc EXCEPT ![c] = "modeSave"] /\ UNCHANGED loc
         ELSE pc' = [pc EXCEPT ![c] = "idle"] /\ loc' = [loc EXCEPT ![c] = NoLoc]
    /\ UNCHANGED <<curSlug, curBundle, curMode, override, config, cmdline, phase, stale,
                   unadopted>>

-----------------------------------------------------------------------------
Startup ==
    \/ \E f \in FlagModes : Start(f)
    \/ BootActive \/ BootEmpty \/ MigrateAdd \/ MigrateSetActive \/ MigrateFail

Request(c) ==
    \/ \E b \in Bundles : ImportRead(c, b)
    \/ \E n \in Names, m \in Modes, b \in Bundles, r, sa \in BOOLEAN :
         AddProfile(c, n, m, b, r, sa)
    \/ \E n \in Names, b \in Bundles, r \in BOOLEAN : AddProfileFails(c, n, b, r)
    \/ \E s \in Slugs : SetActiveProfile(c, s)
    \/ \E s \in Slugs : RemoveProfile(c, s)
    \/ \E s \in Slugs, n \in Names : RenameProfile(c, s, n)
    \/ \E s \in Slugs, n \in Names : RenameProfileFails(c, s, n)
    \/ \E m \in Modes : SetMode(c, m)
    \/ \E i \in Intents : SetRosenpass(c, i)

Handle(c) ==
    \/ ImportList(c) \/ ImportReplace(c) \/ ImportAdopt(c) \/ ImportDefault(c)
    \/ ImportDefaultReplace(c) \/ ImportActivate(c) \/ ImportAdoptSlug(c)
    \/ SwitchLoad(c) \/ SwitchAdopt(c) \/ SwitchMark(c)
    \/ RemoveClear(c) \/ RemoveStore(c)
    \/ RenameCheck(c) \/ RenameSlug(c)
    \/ ModeRead(c) \/ ModeMeta(c) \/ ModeSave(c)
    \/ RosenpassMeta(c) \/ StoreError(c)

Operator ==
    \/ \E ok \in BOOLEAN : EditConfig(ok)
    \/ \E m \in Modes \cup {None} : MendConfig(m)

Next == Startup \/ Operator \/ Crash \/ \E c \in Conns : Request(c) \/ Handle(c)

Spec == Init /\ [][Next]_vars

-----------------------------------------------------------------------------
Positions == StoreWrites \cup
    {"idle", "importList", "importAdopt", "importAdoptSlug", "switchLoad",
     "switchAdopt", "removeClear", "renameCheck", "renameSlug", "modeRead"}

Locals == [slug: Slugs \cup {None}, name: Names \cup {None}, mode: Modes \cup {None},
           bundle: Bundles \cup {None}, rosenpass: Intents \cup {None}]

(* The types of the daemon's memory, of the disk and of the handlers.      *)
TypeOK ==
    /\ catalog \in [Slugs -> Entry]
    /\ active \in Slugs \cup {None}
    /\ phase \in {"down", "loaded", "migrating", "serving"}
    /\ curSlug \in Slugs \cup {None}
    /\ curBundle \in Bundles \cup {None}
    /\ curMode \in Modes \cup (IF phase = "down" THEN {None} ELSE {})
    /\ config \in [ok : BOOLEAN, mode : Modes \cup {None}, dns : 0..MaxEdits]
    /\ edits \in 0..MaxEdits /\ persisted \in 0..MaxEdits
    /\ flag \in FlagModes \cup {None}
    /\ override \in Intents \cup {None}
    /\ pc \in [Conns -> Positions]
    /\ loc \in [Conns -> Locals]
    /\ disturbed \in BOOLEAN /\ stale \in BOOLEAN
    /\ torn \subseteq Slugs /\ unadopted \in BOOLEAN

Quiet == phase = "serving" /\ \A c \in Conns : pc[c] = "idle"

(* "The active marker is written LAST ... so a crash mid-switch keeps the  *)
(* previous active profile pointing at a profile we know is reachable":    *)
(* whatever handlers run concurrently, and wherever the process dies, the  *)
(* marker names a profile that loads, with one exception.  Removing the    *)
(* active profile, renaming it or importing over it takes several writes;  *)
(* when one of them fails, or the process dies between two, the marker may *)
(* name a profile that no longer loads, until it is added, removed or      *)
(* renamed whole.  No switch, and no whole operation, leaves it so.        *)
MarkerResolves == active # None => Loadable(active) \/ active \in torn

(* The daemon serves the profile the marker names: between requests, if no *)
(* two handlers overlapped and no write failed since start-up, the slug in *)
(* memory is the slug a restart would adopt; or start-up met a marker that *)
(* did not load, and the daemon has run without a profile ever since.      *)
MemoryFollowsMarker ==
    (Quiet /\ ~disturbed) => curSlug = active \/ (curSlug = None /\ unadopted)

(* Likewise the bundle and the mode in memory are those a restart would    *)
(* read back, unless AddProfile replaced the active profile on disk        *)
(* without being asked to switch to it, or the mode is the --mode flag's,  *)
(* which outranks the profile's (LoadPersistedBundle, SetMode).            *)
MemoryMatchesDisk ==
    (Quiet /\ ~disturbed /\ ~stale /\ curSlug # None) =>
        /\ curBundle = catalog[curSlug].bundle
        /\ curMode \in {catalog[curSlug].meta.mode} \cup ({flag} \ {None})

(* "a setmode round-trip must never drop them": the mesh_dns keys of       *)
(* config.toml stay those of the operator's last edit through every        *)
(* SetMode, failed save and restart, as long as the daemon was started     *)
(* after that edit; SetMode writes back the keys as loaded at start-up.    *)
OperatorKeysSurvive ==
    (phase # "down" /\ persisted = edits) => config.dns = edits

(* No interleaving and no crash installs a bundle that did not verify, and *)
(* the daemon never runs on one.                                           *)
OnlyVerifiedInUse ==
    /\ curBundle # None => curBundle \in Trusted
    /\ \A s \in Slugs : catalog[s].bundle # None => catalog[s].bundle \in Trusted

=============================================================================

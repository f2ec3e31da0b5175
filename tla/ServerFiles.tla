---------------------------- MODULE ServerFiles ----------------------------
(***************************************************************************)
(* The files the server lives on: config.json, receivers.json and an       *)
(* overlay (config.rs load_from_files, overlays.rs, main.rs, the watchers  *)
(* of state.rs), and the setup wizard that rewrites them (setup.rs).       *)
(*                                                                         *)
(* Server and wizard are two processes that share only the disk; each can  *)
(* end at any moment.  A write in place leaves the file partial until it   *)
(* is finished; a rename replaces it at once, and who was still writing    *)
(* the old file changes nothing any more.  One server and one wizard run   *)
(* at a time.  The three overlays have a file, a place in memory and a     *)
(* watcher each and share none of them; the model follows bands.json.      *)
(***************************************************************************)

CONSTANTS
  Ids,        \* receiver ids
  None, Absent

VARIABLES
  config, tmp,   \* config.json; config.tmp, the migration's copy
  receivers,     \* receivers.json
  overlay,       \* overlays/bands.json
  spc, loaded,   \* server: where it is; the configuration it is to check
  served,        \* server: the overlay in memory, None: JSON null
  wpc, draft,    \* wizard: where it is; the two documents it will save
  asks,          \* wizard: there was no overlay when it looked
  hand,          \* the operator is writing the overlay with an editor
  saved,         \* history: the last wizard that saved config.json saved both
  overwrote      \* history: a migration replaced a configuration it never read

serverVars == <<spc, loaded, served>>
wizardVars == <<wpc, draft, asks>>
diskVars == <<config, tmp, receivers, overlay, hand>>
vars == <<serverVars, wizardVars, diskVars, saved, overwrote>>

Partial(writer) == [partial |-> writer]
Partials == {Partial(w) : w \in {"server", "wizard", "hand"}}

\* port: websdr.public_port is there; clash: two enabled receivers read stdin.
Configs == [port : BOOLEAN, active : Ids \cup {None}]
ReceiverLists == {r \in [ids : SUBSET Ids, clash : BOOLEAN] :
                    r.clash => \E i, j \in r.ids : i # j}
Default == [text |-> "default"]
Other == [text |-> "other"]     \* an empty list, or what the operator entered
Contents == {Default, Other}

ASSUME NamesAssumption ==
  /\ Absent \notin Configs \cup Partials \cup ReceiverLists \cup Contents
  /\ None \notin Ids \cup Configs \cup [config : Configs, receivers : ReceiverLists]

TypeOK ==
  /\ config \in Configs \cup {Absent} \cup Partials /\ tmp \in Configs \cup {Absent} \cup Partials
  /\ receivers \in ReceiverLists \cup {Absent}
  /\ overlay \in Contents \cup {Absent} \cup Partials
  /\ spc \in {"down", "load", "tmp", "tmpEnd", "copy", "copyEnd", "unlink", "receivers",
              "create", "fill", "read", "run"}
  /\ loaded \in Configs \cup {None}
  /\ served \in Contents \cup {None}
  /\ wpc \in {"idle", "create", "fill", "bands", "menu", "write", "saveReceivers"}
  /\ draft \in [config : Configs, receivers : ReceiverLists] \cup {None}
  /\ asks \in BOOLEAN /\ hand \in BOOLEAN
  /\ saved \in BOOLEAN /\ overwrote \in BOOLEAN

\* Any state the disk can have been left in by an operator: no file is torn.
Init ==
  /\ config \in Configs \cup {Absent} /\ receivers \in ReceiverLists \cup {Absent}
  /\ receivers # Absent => ~receivers.clash
  /\ tmp = Absent /\ overlay \in {Default, Absent}
  /\ spc = "down" /\ loaded = None /\ served = None
  /\ wpc = "idle" /\ draft = None /\ asks = FALSE
  /\ hand = FALSE /\ saved = FALSE /\ overwrote = FALSE
-----------------------------------------------------------------------------
(* Server: start-up *)

ServerUnchanged == UNCHANGED <<wizardVars, hand, saved>>

\* main() looks for the files before it loads them; an unreadable list counts
\* as one with entries.
Start ==
  /\ spc = "down" /\ config # Absent
  /\ receivers # Absent /\ receivers.ids # {}
  /\ spc' = "load"
  /\ UNCHANGED <<loaded, served, config, tmp, receivers, overlay, overwrote>> /\ ServerUnchanged

\* migrate_global_config_json adds what an older file has not got.
Migrated(c) == [c EXCEPT !.port = TRUE]

ParseConfig ==
  /\ spc = "load" /\ config \in Configs
  /\ loaded' = Migrated(config)
  /\ spc' = IF config.port THEN "receivers" ELSE "tmp"
  /\ UNCHANGED <<served, config, tmp, receivers, overlay, overwrote>> /\ ServerUnchanged

\* write_json_atomic: write config.tmp, copy it over config.json, remove it.
WriteTmp ==
  /\ \/ spc = "tmp" /\ tmp' = Partial("server") /\ spc' = "tmpEnd"
     \/ spc = "tmpEnd" /\ tmp' = loaded /\ spc' = "copy"
  /\ UNCHANGED <<loaded, served, config, receivers, overlay, overwrote>> /\ ServerUnchanged

\* Wrong variant: removes config.tmp as soon as the copy has begun.
CopyTmpMoves ==
  /\ spc = "copy" /\ config' = Partial("server") /\ tmp' = Absent /\ spc' = "copyEnd"
  /\ UNCHANGED <<loaded, served, receivers, overlay, overwrote>> /\ ServerUnchanged

CopyTmp ==
  /\ spc = "copy" /\ config' = Partial("server") /\ spc' = "copyEnd"
  /\ overwrote' = (overwrote \/ (config \in Configs /\ config.port))
  /\ UNCHANGED <<loaded, served, tmp, receivers, overlay>> /\ ServerUnchanged

CopyEnds ==
  /\ spc = "copyEnd" /\ spc' = "unlink"
  /\ config' = IF config = Partial("server") THEN tmp ELSE config
  /\ UNCHANGED <<loaded, served, tmp, receivers, overlay, overwrote>> /\ ServerUnchanged

Unlink ==
  /\ spc = "unlink" /\ tmp' = Absent /\ spc' = "receivers"
  /\ UNCHANGED <<loaded, served, config, receivers, overlay, overwrote>> /\ ServerUnchanged

\* The checks of load_from_files on the two documents together.
Loadable(c, r) ==
  /\ r.ids # {} /\ ~r.clash
  /\ \/ c.active \in r.ids
     \/ c.active = None /\ \A i, j \in r.ids : i = j

CheckReceivers ==
  /\ spc = "receivers" /\ receivers # Absent /\ Loadable(loaded, receivers)
  /\ spc' = "create" /\ loaded' = None
  /\ UNCHANGED <<served, config, tmp, receivers, overlay, overwrote>> /\ ServerUnchanged

\* write_json_if_missing: create_new, then write_all.  A file that is there
\* already is left alone whatever is in it.
CreateOverlay ==
  /\ spc = "create"
  /\ \/ overlay = Absent /\ overlay' = Partial("server") /\ spc' = "fill"
     \/ overlay # Absent /\ UNCHANGED overlay /\ spc' = "read"
  /\ UNCHANGED <<loaded, served, config, tmp, receivers, overwrote>> /\ ServerUnchanged

\* What ends a write in place: nothing, if the file was replaced meanwhile.
Filled(writer, content) == IF overlay = Partial(writer) THEN content ELSE overlay

FillOverlay ==
  /\ spc = "fill" /\ spc' = "read" /\ overlay' = Filled("server", Default)
  /\ UNCHANGED <<loaded, served, config, tmp, receivers, overwrote>> /\ ServerUnchanged

\* load_overlays_once: a file that cannot be read or parsed changes nothing.
LoadOverlays ==
  /\ spc = "read" /\ spc' = "run"
  /\ served' = IF overlay \in Contents THEN overlay ELSE served
  /\ UNCHANGED <<loaded, config, tmp, receivers, overlay, overwrote>> /\ ServerUnchanged

\* Wrong variant: loads an overlay only until it has one.
WatchOnce ==
  /\ spc = "run" /\ overlay \in Contents /\ served = None
  /\ served' = overlay
  /\ UNCHANGED <<spc, loaded, config, tmp, receivers, overlay, overwrote>> /\ ServerUnchanged

\* One round of the watcher; an unreadable file is passed over.
Watch ==
  /\ spc = "run" /\ overlay \in Contents /\ served # overlay
  /\ served' = overlay
  /\ UNCHANGED <<spc, loaded, config, tmp, receivers, overlay, overwrote>> /\ ServerUnchanged

\* An error of one of the steps above, a signal or a power failure.
Stop ==
  /\ spc # "down" /\ spc' = "down" /\ loaded' = None /\ served' = None
  /\ UNCHANGED <<config, tmp, receivers, overlay, overwrote>> /\ ServerUnchanged
-----------------------------------------------------------------------------
(* Wizard *)

WizardUnchanged == UNCHANGED <<serverVars, tmp, hand>>

\* configure_receivers: any receivers with different ids; "Done" is offered once
\* there is one, and nothing keeps two of them from reading stdin.
EditedReceivers == {r \in ReceiverLists : r.ids # {}}

\* Wrong variant: keeps offering the receiver that was active, removed or not.
SelectableStale(r) == r.ids \cup (IF config = Absent THEN {} ELSE {config.active} \ {None})

\* configure_active_receiver offers the enabled receivers.
Selectable(r) == r.ids

\* configure_global always leaves a public_port, if only null.
EditedConfig(a) == [port |-> TRUE, active |-> a]

\* load_or_create_config and load_or_create_receivers: a file that cannot be
\* parsed ends the wizard, one that is missing is begun in memory.  Then the
\* dialogue; configure_extras looks which overlays there are.
StartSetup ==
  /\ wpc = "idle" /\ config \in Configs \cup {Absent}
  /\ wpc' = "create"
  /\ \E r \in EditedReceivers : \E a \in Selectable(r) :
       draft' = [config |-> EditedConfig(a), receivers |-> r]
  /\ asks' = (overlay = Absent)
  /\ UNCHANGED <<config, receivers, overlay, saved, overwrote>> /\ WizardUnchanged

\* ensure_default_overlays again, by this process.
EnsureOverlay ==
  /\ \/ wpc = "create" /\ overlay = Absent /\ overlay' = Partial("wizard") /\ wpc' = "fill"
     \/ /\ wpc = "create" /\ overlay # Absent /\ UNCHANGED overlay
        /\ wpc' = IF asks THEN "bands" ELSE "menu"
     \/ /\ wpc = "fill" /\ overlay' = Filled("wizard", Default)
        /\ wpc' = IF asks THEN "bands" ELSE "menu"
  /\ UNCHANGED <<draft, asks, config, receivers, saved, overwrote>> /\ WizardUnchanged

\* "Initialize overlays/bands.json with the default band plan?"
AskBands ==
  /\ wpc = "bands" /\ wpc' = "menu" /\ asks' = FALSE
  /\ \/ UNCHANGED overlay
     \/ overlay' = Other
  /\ UNCHANGED <<draft, config, receivers, saved, overwrote>> /\ WizardUnchanged

\* The menu asks whether the choice starts with the name of an overlay before
\* it asks for "clear", "reset" and "start empty", which do: all of them lead
\* to the editor, which gives up on a file it cannot parse.
Choose ==
  /\ wpc = "menu" /\ wpc' = "write"
  /\ overlay \notin Partials
  /\ UNCHANGED <<draft, asks, config, receivers, overlay, saved, overwrote>> /\ WizardUnchanged

\* edit_markers, edit_bands and edit_header_panel end in write_json: a rename.
WriteOverlay ==
  /\ wpc = "write" /\ wpc' = "menu"
  /\ overlay' \in Contents
  /\ UNCHANGED <<draft, asks, config, receivers, saved, overwrote>> /\ WizardUnchanged

SaveConfig ==
  /\ wpc = "menu" /\ wpc' = "saveReceivers"
  /\ config' = draft.config /\ saved' = FALSE /\ overwrote' = FALSE
  /\ UNCHANGED <<draft, asks, receivers, overlay>> /\ WizardUnchanged

SaveReceivers ==
  /\ wpc = "saveReceivers" /\ wpc' = "idle"
  /\ receivers' = draft.receivers /\ draft' = None /\ saved' = TRUE
  /\ UNCHANGED <<asks, config, overlay, overwrote>> /\ WizardUnchanged

\* A prompt that is cancelled, an error of a step above, or a signal.
Abort ==
  /\ wpc # "idle" /\ wpc' = "idle" /\ draft' = None /\ asks' = FALSE
  /\ UNCHANGED <<config, receivers, overlay, saved, overwrote>> /\ WizardUnchanged
-----------------------------------------------------------------------------
\* The operator saves an overlay from an editor that writes in place.
EditByHand ==
  /\ \/ ~hand /\ overlay \in Contents /\ hand' = TRUE /\ overlay' = Partial("hand")
     \/ /\ hand /\ hand' = FALSE
        /\ \E c \in Contents : overlay' = Filled("hand", c)
  /\ UNCHANGED <<serverVars, wizardVars, config, tmp, receivers, saved, overwrote>>

Server ==
  \/ Start \/ ParseConfig \/ WriteTmp \/ CopyTmp \/ CopyEnds \/ Unlink \/ CheckReceivers
  \/ CreateOverlay \/ FillOverlay \/ LoadOverlays \/ Watch \/ Stop

Wizard ==
  \/ StartSetup \/ EnsureOverlay \/ AskBands \/ Choose \/ WriteOverlay
  \/ SaveConfig \/ SaveReceivers \/ Abort

Next == Server \/ Wizard \/ EditByHand

\* The watchers are woken every minute for as long as the process runs.
Fairness == WF_vars(Watch)

Spec == Init /\ [][Next]_vars /\ Fairness
-----------------------------------------------------------------------------
(* Properties *)

\* Once a wizard has saved both files, the server can load them, although the
\* two are saved one after the other and a migration may rewrite one of them:
\* unless two receivers were given stdin, or the migration of a server that
\* had read the older file came later and put that back.
CompletedSetupLoads ==
  /\ TypeOK
  /\ saved /\ ~overwrote /\ ~receivers.clash => config \in Configs /\ Loadable(config, receivers)

\* A config.json that a migration left cut short is never the only copy: the
\* whole of it is in config.tmp, through any number of restarts and setups.
TornHasCopy == config \in Partials => tmp \in Configs /\ tmp.port

\* The running server catches up with an overlay, however often a watcher met
\* it half written (docs/CONFIG.md: "hot-reloaded about once per minute").
HotReload ==
  (spc = "run" /\ served # overlay) ~> (served = overlay \/ overlay \in Partials \/ spc # "run")
=============================================================================

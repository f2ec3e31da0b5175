------------------------- MODULE ServerFilesProofs -------------------------
(***************************************************************************)
(* For every set of receiver ids: what a finished wizard saved loads, and  *)
(* a torn config.json always has a whole copy beside it, wherever server   *)
(* and wizard are stopped.                                                 *)
(***************************************************************************)
EXTENDS ServerFiles, TLAPS

USE NamesAssumption

\* A document is never taken for a file that is being written.
LEMMA WholeIsNotPartial ==
  /\ Configs \cap Partials = {} /\ Contents \cap Partials = {}
  /\ Absent \notin Configs \cup Partials
  BY DEF Configs, Partials, Partial, Contents, Default, Other

\* What an overlay can hold.
LEMMA OverlayTypes ==
  /\ Partial("server") \in Partials /\ Partial("wizard") \in Partials
  /\ Partial("hand") \in Partials
  /\ Default \in Contents /\ Other \in Contents
  BY DEF Partials, Contents

\* A migrated configuration is a configuration with a port.
LEMMA MigratedType ==
  ASSUME NEW c \in Configs
  PROVE  Migrated(c) \in Configs /\ Migrated(c).port
  BY DEF Configs, Migrated

\* A configuration the wizard ends with.
LEMMA EditedType ==
  ASSUME NEW r \in EditedReceivers, NEW a \in Selectable(r)
  PROVE  /\ EditedConfig(a) \in Configs /\ EditedConfig(a).port /\ EditedConfig(a).active = a
         /\ r \in ReceiverLists /\ a \in r.ids
  BY DEF EditedReceivers, Selectable, EditedConfig, Configs, ReceiverLists

\* A finished write in place leaves what it wrote, or what replaced the file.
LEMMA FilledType ==
  ASSUME NEW w, NEW c \in Contents, overlay \in Contents \cup {Absent} \cup Partials
  PROVE  Filled(w, c) \in Contents \cup {Absent} \cup Partials
  BY DEF Filled
-----------------------------------------------------------------------------
(* The inductive invariant *)

Drafts == [config : Configs, receivers : ReceiverLists]

ServerTypes ==
  /\ spc \in {"down", "load", "tmp", "tmpEnd", "copy", "copyEnd", "unlink", "receivers",
              "create", "fill", "read", "run"}
  /\ loaded \in Configs \cup {None}
  /\ served \in Contents \cup {None}
WizardTypes ==
  /\ wpc \in {"idle", "create", "fill", "bands", "menu", "write", "saveReceivers"}
  /\ draft \in Drafts \cup {None}
  /\ asks \in BOOLEAN
DiskTypes ==
  /\ config \in Configs \cup {Absent} \cup Partials /\ tmp \in Configs \cup {Absent} \cup Partials
  /\ receivers \in ReceiverLists \cup {Absent}
OverlayTypesOK ==
  /\ overlay \in Contents \cup {Absent} \cup Partials /\ hand \in BOOLEAN
HistoryTypes == saved \in BOOLEAN /\ overwrote \in BOOLEAN

\* While a migration writes config.tmp it holds a migrated configuration and
\* config.json is whole; while it copies, config.tmp is that configuration.
\* Only the copy leaves config.json partial, and config.tmp whole with it.
Copying ==
  /\ spc \in {"tmp", "tmpEnd", "copy", "copyEnd"} => loaded \in Configs /\ loaded.port
  /\ spc \in {"copy", "copyEnd"} => tmp = loaded
  /\ spc \in {"tmp", "tmpEnd", "unlink"} => config \notin Partials
  /\ config \in Partials => config = Partial("server") /\ tmp \in Configs /\ tmp.port

\* A wizard in progress has a draft that loads.
Drafted ==
  wpc # "idle" => /\ draft \in Drafts /\ draft.config.port
                  /\ draft.config.active \in draft.receivers.ids

\* What has been saved is what is on the disk, unless it was overwritten.
Saved ==
  /\ wpc = "saveReceivers" /\ ~overwrote => config = draft.config
  /\ saved /\ ~overwrote => /\ config \in Configs /\ config.port
                           /\ receivers \in ReceiverLists
                           /\ config.active \in receivers.ids

IInv ==
  /\ ServerTypes /\ WizardTypes /\ DiskTypes /\ OverlayTypesOK /\ HistoryTypes
  /\ Copying /\ Drafted /\ Saved

\* The parts hold at first: no file is torn and nobody runs.
LEMMA InitInvariant == Init => IInv
  BY WholeIsNotPartial, OverlayTypes
  DEF Init, IInv, ServerTypes, WizardTypes, DiskTypes, OverlayTypesOK, HistoryTypes, Copying, Drafted, Saved

\* The server's variables keep their types.
LEMMA ServerTypesStep ==
  ASSUME IInv, [Next]_vars
  PROVE  ServerTypes'
<1> USE DEF IInv, ServerTypes
<1>1. CASE Start
  BY <1>1 DEF Start, ServerUnchanged, wizardVars
<1>2. CASE ParseConfig
  BY MigratedType, <1>2 DEF ParseConfig, ServerUnchanged, wizardVars
<1>3. CASE WriteTmp
  BY <1>3 DEF WriteTmp, ServerUnchanged, wizardVars
<1>4. CASE CopyTmp
  BY <1>4 DEF CopyTmp, ServerUnchanged, wizardVars
<1>5. CASE CopyEnds
  BY <1>5 DEF CopyEnds, ServerUnchanged, wizardVars
<1>6. CASE Unlink
  BY <1>6 DEF Unlink, ServerUnchanged, wizardVars
<1>7. CASE CheckReceivers
  BY <1>7 DEF CheckReceivers, ServerUnchanged, wizardVars
<1>8. CASE CreateOverlay
  BY <1>8 DEF CreateOverlay, ServerUnchanged, wizardVars
<1>9. CASE FillOverlay
  BY <1>9 DEF FillOverlay, ServerUnchanged, wizardVars
<1>10. CASE LoadOverlays
  BY <1>10 DEF LoadOverlays, ServerUnchanged, wizardVars
<1>11. CASE Watch
  BY <1>11 DEF Watch, ServerUnchanged, wizardVars
<1>12. CASE Stop
  BY <1>12 DEF Stop, ServerUnchanged, wizardVars
<1>13. CASE Wizard
  BY <1>13 DEF Wizard, StartSetup, EnsureOverlay, AskBands, Choose, WriteOverlay, SaveConfig,
     SaveReceivers, Abort, WizardUnchanged, serverVars
<1>14. CASE EditByHand \/ UNCHANGED vars
  BY <1>14 DEF EditByHand, vars, serverVars, wizardVars, diskVars
<1>15. QED
  BY <1>1, <1>2, <1>3, <1>4, <1>5, <1>6, <1>7, <1>8, <1>9, <1>10, <1>11, <1>12, <1>13, <1>14 DEF
     Next, Server, Wizard

\* The wizard's variables keep their types.
LEMMA WizardTypesStep ==
  ASSUME IInv, [Next]_vars
  PROVE  WizardTypes'
<1> USE DEF IInv, WizardTypes
<1>1. CASE StartSetup
  BY EditedType, <1>1 DEF StartSetup, WizardUnchanged, serverVars, Drafts
<1>2. CASE EnsureOverlay
  BY <1>2 DEF EnsureOverlay, WizardUnchanged, serverVars
<1>3. CASE AskBands
  BY <1>3 DEF AskBands, WizardUnchanged, serverVars
<1>4. CASE Choose
  BY <1>4 DEF Choose, WizardUnchanged, serverVars
<1>5. CASE WriteOverlay
  BY <1>5 DEF WriteOverlay, WizardUnchanged, serverVars
<1>6. CASE SaveConfig
  BY <1>6 DEF SaveConfig, WizardUnchanged, serverVars
<1>7. CASE SaveReceivers
  BY <1>7 DEF SaveReceivers, WizardUnchanged, serverVars
<1>8. CASE Abort
  BY <1>8 DEF Abort, WizardUnchanged, serverVars
<1>9. CASE Server
  BY <1>9 DEF Server, Start, ParseConfig, WriteTmp, CopyTmp, CopyEnds, Unlink, CheckReceivers,
     CreateOverlay, FillOverlay, LoadOverlays, Watch, Stop, ServerUnchanged, wizardVars
<1>10. CASE EditByHand \/ UNCHANGED vars
  BY <1>10 DEF EditByHand, vars, serverVars, wizardVars, diskVars
<1>11. QED
  BY <1>1, <1>2, <1>3, <1>4, <1>5, <1>6, <1>7, <1>8, <1>9, <1>10 DEF Next, Server, Wizard

\* The two configuration files keep their types.
LEMMA DiskTypesStep ==
  ASSUME IInv, [Next]_vars
  PROVE  DiskTypes'
<1> USE DEF IInv, DiskTypes
<1>1. CASE WriteTmp
  BY OverlayTypes, <1>1 DEF WriteTmp, ServerUnchanged, wizardVars, Copying
<1>2. CASE CopyTmp
  BY OverlayTypes, <1>2 DEF CopyTmp, ServerUnchanged, wizardVars
<1>3. CASE CopyEnds
  BY <1>3 DEF CopyEnds, ServerUnchanged, wizardVars
<1>4. CASE Unlink
  BY <1>4 DEF Unlink, ServerUnchanged, wizardVars
<1>5. CASE SaveConfig
  BY <1>5 DEF SaveConfig, WizardUnchanged, serverVars, Drafted, Drafts
<1>6. CASE SaveReceivers
  BY <1>6 DEF SaveReceivers, WizardUnchanged, serverVars, Drafted, Drafts
<1>7. CASE Start \/ ParseConfig \/ CheckReceivers \/ CreateOverlay \/ FillOverlay \/ LoadOverlays
           \/ Watch \/ Stop
  BY <1>7 DEF Start, ParseConfig, CheckReceivers, CreateOverlay, FillOverlay, LoadOverlays,
     Watch, Stop, ServerUnchanged, wizardVars
<1>8. CASE StartSetup \/ EnsureOverlay \/ AskBands \/ Choose \/ WriteOverlay \/ Abort
  BY <1>8 DEF StartSetup, EnsureOverlay, AskBands, Choose, WriteOverlay, Abort, WizardUnchanged,
     serverVars
<1>9. CASE EditByHand \/ UNCHANGED vars
  BY <1>9 DEF EditByHand, vars, serverVars, wizardVars, diskVars
<1>10. QED
  BY <1>1, <1>2, <1>3, <1>4, <1>5, <1>6, <1>7, <1>8, <1>9 DEF Next, Server, Wizard

\* The overlay keeps its type.
LEMMA OverlayTypesStep ==
  ASSUME IInv, [Next]_vars
  PROVE  OverlayTypesOK'
<1> USE DEF IInv, OverlayTypesOK
<1>1. CASE CreateOverlay
  BY OverlayTypes, <1>1 DEF CreateOverlay, ServerUnchanged, wizardVars
<1>2. CASE FillOverlay
  BY OverlayTypes, FilledType, <1>2 DEF FillOverlay, ServerUnchanged, wizardVars
<1>3. CASE EnsureOverlay
  BY OverlayTypes, FilledType, <1>3 DEF EnsureOverlay, WizardUnchanged, serverVars
<1>4. CASE AskBands
  BY OverlayTypes, <1>4 DEF AskBands, WizardUnchanged, serverVars
<1>5. CASE WriteOverlay
  BY <1>5 DEF WriteOverlay, WizardUnchanged, serverVars
<1>6. CASE EditByHand
  <2>1. hand' \in BOOLEAN
    BY <1>6 DEF EditByHand
  <2>2. overlay' = Partial("hand") \/ \E c \in Contents : overlay' = Filled("hand", c)
    BY <1>6 DEF EditByHand
  <2>3. QED
    BY <2>1, <2>2, OverlayTypes, FilledType
<1>7. CASE Start \/ ParseConfig \/ WriteTmp \/ CopyTmp \/ CopyEnds \/ Unlink \/ CheckReceivers \/
           LoadOverlays \/ Watch \/ Stop
  BY <1>7 DEF Start, ParseConfig, WriteTmp, CopyTmp, CopyEnds, Unlink, CheckReceivers,
     LoadOverlays, Watch, Stop, ServerUnchanged, wizardVars
<1>8. CASE StartSetup \/ Choose \/ SaveConfig \/ SaveReceivers \/ Abort
  BY <1>8 DEF StartSetup, Choose, SaveConfig, SaveReceivers, Abort, WizardUnchanged, serverVars
<1>9. CASE UNCHANGED vars
  BY <1>9 DEF vars, serverVars, wizardVars, diskVars
<1>10. QED
  BY <1>1, <1>2, <1>3, <1>4, <1>5, <1>6, <1>7, <1>8, <1>9 DEF Next, Server, Wizard

\* The history variables keep their types.
LEMMA HistoryTypesStep ==
  ASSUME IInv, [Next]_vars
  PROVE  HistoryTypes'
<1> USE DEF IInv, HistoryTypes
<1>1. CASE CopyTmp
  BY <1>1 DEF CopyTmp, ServerUnchanged, wizardVars
<1>2. CASE SaveConfig
  BY <1>2 DEF SaveConfig, WizardUnchanged, serverVars
<1>3. CASE SaveReceivers
  BY <1>3 DEF SaveReceivers, WizardUnchanged, serverVars
<1>4. CASE Start \/ ParseConfig \/ WriteTmp \/ CopyEnds \/ Unlink \/ CheckReceivers \/
           CreateOverlay \/ FillOverlay \/ LoadOverlays \/ Watch \/ Stop
  BY <1>4 DEF Start, ParseConfig, WriteTmp, CopyEnds, Unlink, CheckReceivers, CreateOverlay,
     FillOverlay, LoadOverlays, Watch, Stop, ServerUnchanged, wizardVars
<1>5. CASE StartSetup \/ EnsureOverlay \/ AskBands \/ Choose \/ WriteOverlay \/ Abort
  BY <1>5 DEF StartSetup, EnsureOverlay, AskBands, Choose, WriteOverlay, Abort, WizardUnchanged,
     serverVars
<1>6. CASE EditByHand \/ UNCHANGED vars
  BY <1>6 DEF EditByHand, vars, serverVars, wizardVars, diskVars
<1>7. QED
  BY <1>1, <1>2, <1>3, <1>4, <1>5, <1>6 DEF Next, Server, Wizard

\* A migration never leaves config.json partial without a whole config.tmp.
LEMMA CopyingStep ==
  ASSUME IInv, [Next]_vars
  PROVE  Copying'
<1> USE DEF IInv, Copying, ServerTypes, DiskTypes
<1>1. CASE ParseConfig
  BY MigratedType, WholeIsNotPartial, <1>1 DEF ParseConfig, ServerUnchanged, wizardVars
<1>2. CASE WriteTmp
  BY OverlayTypes, <1>2 DEF WriteTmp, ServerUnchanged, wizardVars
<1>3. CASE CopyTmp
  BY OverlayTypes, <1>3 DEF CopyTmp, ServerUnchanged, wizardVars
<1>4. CASE CopyEnds
  BY WholeIsNotPartial, <1>4 DEF CopyEnds, ServerUnchanged, wizardVars, Partials
<1>5. CASE Unlink
  BY <1>5 DEF Unlink, ServerUnchanged, wizardVars
<1>6. CASE SaveConfig
  BY WholeIsNotPartial, <1>6 DEF SaveConfig, WizardUnchanged, serverVars, Drafted, Drafts
<1>7. CASE Start \/ CheckReceivers \/ CreateOverlay \/ FillOverlay \/ LoadOverlays \/ Watch \/ Stop
  BY <1>7 DEF Start, CheckReceivers, CreateOverlay, FillOverlay, LoadOverlays, Watch, Stop,
     ServerUnchanged, wizardVars
<1>8. CASE StartSetup \/ EnsureOverlay \/ AskBands \/ Choose \/ WriteOverlay \/ SaveReceivers \/
           Abort
  BY <1>8 DEF StartSetup, EnsureOverlay, AskBands, Choose, WriteOverlay, SaveReceivers, Abort,
     WizardUnchanged, serverVars
<1>9. CASE EditByHand \/ UNCHANGED vars
  BY <1>9 DEF EditByHand, vars, serverVars, wizardVars, diskVars
<1>10. QED
  BY <1>1, <1>2, <1>3, <1>4, <1>5, <1>6, <1>7, <1>8, <1>9 DEF Next, Server, Wizard

\* A draft stays loadable until it is saved.
LEMMA DraftedStep ==
  ASSUME IInv, [Next]_vars
  PROVE  Drafted'
<1> USE DEF IInv, Drafted
<1>1. CASE StartSetup
  BY EditedType, <1>1 DEF StartSetup, WizardUnchanged, serverVars, Drafts
<1>2. CASE Server
  BY <1>2 DEF Server, Start, ParseConfig, WriteTmp, CopyTmp, CopyEnds, Unlink, CheckReceivers,
     CreateOverlay, FillOverlay, LoadOverlays, Watch, Stop, ServerUnchanged, wizardVars
<1>3. CASE EnsureOverlay \/ AskBands \/ Choose \/ WriteOverlay \/ SaveConfig \/ SaveReceivers \/
           Abort
  BY <1>3 DEF EnsureOverlay, AskBands, Choose, WriteOverlay, SaveConfig, SaveReceivers, Abort,
     WizardUnchanged, serverVars
<1>4. CASE EditByHand \/ UNCHANGED vars
  BY <1>4 DEF EditByHand, vars, serverVars, wizardVars, diskVars
<1>5. QED
  BY <1>1, <1>2, <1>3, <1>4 DEF Next, Server, Wizard

\* What is saved stays, or a migration counts as overwriting it.
LEMMA SavedStep ==
  ASSUME IInv, [Next]_vars
  PROVE  Saved'
<1> USE DEF IInv, Saved, WizardTypes
<1>1. CASE CopyTmp
  BY <1>1 DEF CopyTmp, ServerUnchanged, wizardVars, Drafted, Drafts
<1>2. CASE CopyEnds
  BY OverlayTypes, WholeIsNotPartial, <1>2 DEF CopyEnds, ServerUnchanged, wizardVars, Drafted,
     Drafts
<1>3. CASE SaveConfig
  BY <1>3 DEF SaveConfig, WizardUnchanged, serverVars, Drafted, Drafts
<1>4. CASE SaveReceivers
  BY <1>4 DEF SaveReceivers, WizardUnchanged, serverVars, Drafted, Drafts
<1>5. CASE Start \/ ParseConfig \/ WriteTmp \/ Unlink \/ CheckReceivers \/ CreateOverlay \/
           FillOverlay \/ LoadOverlays \/ Watch \/ Stop
  BY <1>5 DEF Start, ParseConfig, WriteTmp, Unlink, CheckReceivers, CreateOverlay, FillOverlay,
     LoadOverlays, Watch, Stop, ServerUnchanged, wizardVars
<1>6. CASE StartSetup \/ EnsureOverlay \/ AskBands \/ Choose \/ WriteOverlay \/ Abort
  BY <1>6 DEF StartSetup, EnsureOverlay, AskBands, Choose, WriteOverlay, Abort, WizardUnchanged,
     serverVars
<1>7. CASE EditByHand \/ UNCHANGED vars
  BY <1>7 DEF EditByHand, vars, serverVars, wizardVars, diskVars
<1>8. QED
  BY <1>1, <1>2, <1>3, <1>4, <1>5, <1>6, <1>7 DEF Next, Server, Wizard

\* The invariant holds in every reachable state.
LEMMA InvariantHolds == Spec => []IInv
<1>1. IInv /\ [Next]_vars => IInv'
  BY ServerTypesStep, WizardTypesStep, DiskTypesStep, OverlayTypesStep, HistoryTypesStep,
     CopyingStep, DraftedStep, SavedStep
  DEF IInv
<1>2. QED
  BY <1>1, InitInvariant, PTL DEF Spec
-----------------------------------------------------------------------------
(* Theorems *)

\* Files, memory and the two processes are always in the states the code
\* has: what is read, written and drafted is what its reader expects.
THEOREM TypeCorrect == Spec => []TypeOK
<1>1. IInv => TypeOK
  BY DEF IInv, TypeOK, ServerTypes, WizardTypes, DiskTypes, OverlayTypesOK, HistoryTypes, Drafts
<1>2. QED
  BY <1>1, InvariantHolds, PTL

\* A config.json that a migration left cut short is never the only copy.
THEOREM TornConfigHasCopy == Spec => []TornHasCopy
<1>1. IInv => TornHasCopy
  BY DEF IInv, Copying, TornHasCopy
<1>2. QED
  BY <1>1, InvariantHolds, PTL

\* What a finished wizard saved is loaded by the next start, unless it gave
\* stdin to two receivers or a migration put the older file back.
THEOREM SetupLoads == Spec => []CompletedSetupLoads
<1>1. IInv => (saved /\ ~overwrote /\ ~receivers.clash
                => config \in Configs /\ Loadable(config, receivers))
  BY DEF IInv, Saved, Loadable
<1>2. IInv /\ TypeOK => CompletedSetupLoads
  BY <1>1 DEF CompletedSetupLoads
<1>3. QED
  BY <1>2, InvariantHolds, TypeCorrect, PTL
=============================================================================

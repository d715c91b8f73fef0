----------------------------- MODULE IbApiProofs -----------------------------
(* The API for any number of processes, descriptors and settings; and what one  *)
(* process can rely on that has the driver to itself.                           *)
EXTENDS IbApi, TLAPS

LEMMA ConstantsTyped ==
    /\ 1 \in Slots
    /\ Default \in Settings /\ Unused \in Descriptor /\ NoRun \in Transfer
    /\ DefaultBoard \in [pad : Pads, own : Owns]
<1>1. 1 \in Slots
  BY ApiAssumption DEF Slots
<1>2. Default \in Settings
  BY SettingsAssumption DEF Default, Settings
<1>3. Unused \in Descriptor
  BY SettingsAssumption DEF Unused, Descriptor
<1>4. NoRun \in Transfer
  BY <1>2, <1>3 DEF NoRun, Transfer
<1>5. DefaultBoard \in [pad : Pads, own : Owns]
  BY SettingsAssumption DEF DefaultBoard
<1> QED
  BY <1>1, <1>2, <1>3, <1>4, <1>5

\* Reports of a call are errors and bits of ibsta that exist.
LEMMA ReportTyped ==
    ASSUME TypeOK, NEW p \in Procs, NEW bits \in SUBSET {"ERR", "TIMO", "END", "CMPL"},
           NEW err \in Errors, Report(p, bits, err)
    PROVE  /\ ibsta' \in [Procs -> SUBSET {"ERR", "TIMO", "END", "CMPL"}]
           /\ iberr' \in [Procs -> Errors]
  BY DEF TypeOK, Report

LEMMA ReportsTyped ==
    ASSUME TypeOK, NEW p \in Procs,
           Succeed(p) \/ Fail(p, "ENEB") \/ Fail(p, "ETAB") \/ Fail(p, "EARG") \/ Fail(p, "EDVR")
    PROVE  /\ ibsta' \in [Procs -> SUBSET {"ERR", "TIMO", "END", "CMPL"}]
           /\ iberr' \in [Procs -> Errors]
<1>1. {"none", "ENEB", "ETAB", "EARG", "EDVR"} \subseteq Errors
  BY DEF Errors
<1> QED
  BY <1>1, ReportTyped DEF Succeed, Fail

LEMMA DriverTyped ==
    ASSUME TypeOK, NEW new \in Settings, Apply(new) PROVE SettingsOK'
  BY DEF TypeOK, SettingsOK, Apply

LEMMA ReinitialisedTyped ==
    ASSUME TypeOK, Reinitialise PROVE SettingsOK'
<1>1. config \in Settings /\ Default \in Settings
  BY ConstantsTyped DEF TypeOK, SettingsOK
<1>2. [timeout |-> config.timeout, eos |-> NoEos, pad |-> config.pad, own |-> DefaultOwn]
        \in Settings
  BY <1>1, SettingsAssumption DEF Settings
<1> QED
  BY <1>1, <1>2 DEF SettingsOK, Reinitialise

LEMMA LostTyped ==
    ASSUME TypeOK, NEW p \in Procs, Lost(p) PROVE TypeOK'
<1>1. /\ ibsta' \in [Procs -> SUBSET {"ERR", "TIMO", "END", "CMPL"}]
      /\ iberr' \in [Procs -> Errors]
  BY ReportsTyped DEF Lost
<1>2. pc' \in [Procs -> {"idle", "info", "set", "run"}]
  BY DEF Lost, TypeOK
<1> QED
  BY <1>1, <1>2 DEF Lost, TypeOK, SettingsOK, driverVars

LEMMA RowTyped ==
    ASSUME TypeOK, NEW p \in Procs, NEW s, NEW d \in Descriptor
    PROVE  [device EXCEPT ![p][s] = d] \in [Procs -> [Slots -> Descriptor]]
<1>1. device \in [Procs -> [Slots -> Descriptor]]
  BY DEF TypeOK
<1>2. device[p] \in [Slots -> Descriptor]
  BY <1>1
<1>3. [device[p] EXCEPT ![s] = d] \in [Slots -> Descriptor]
  BY <1>2
<1> QED
  BY <1>1, <1>3

LEMMA ChangeTyped ==
    ASSUME TypeOK, NEW p \in Procs, NEW s \in Slots, NEW d \in Descriptor, Change(p, s, d)
    PROVE  TypeOK'
<1>1. /\ ibsta' \in [Procs -> SUBSET {"ERR", "TIMO", "END", "CMPL"}]
      /\ iberr' \in [Procs -> Errors]
  BY ReportsTyped DEF Change
<1>2. device' \in [Procs -> [Slots -> Descriptor]]
  <2>1. CASE device' = [device EXCEPT ![p][s] = d]
    BY <2>1, RowTyped
  <2>2. CASE device' = device
    BY <2>2 DEF TypeOK
  <2> QED
    BY <2>1, <2>2 DEF Change
<1>3. ran' \in [Procs -> Transfer]
  BY ConstantsTyped DEF Change, Forget, TypeOK
<1> QED
  BY <1>1, <1>2, <1>3 DEF Change, inProcess, TypeOK, SettingsOK, driverVars

LEMMA MergedTyped ==
    ASSUME TypeOK, NEW p \in Procs
    PROVE  /\ Merged(p) \in Settings
           /\ Merged(p).timeout = device[p][ud[p]].timeout /\ Merged(p).eos = device[p][ud[p]].eos
           /\ Merged(p).pad = c[p].pad /\ Merged(p).own = c[p].own
<1>1. c[p] \in Settings /\ device[p][ud[p]] \in Descriptor
  BY DEF TypeOK
<1> QED
  BY <1>1 DEF Merged, Settings, Descriptor

\* Every step of a process leaves a well typed state.
LEMMA ProcessTyped ==
    ASSUME TypeOK, NEW p \in Procs, Process(p) PROVE TypeOK'
<1> USE DEF TypeOK, SettingsOK, driverVars
<1>1. CASE IbFindBoard(p)
  <2>1. /\ ibsta' \in [Procs -> SUBSET {"ERR", "TIMO", "END", "CMPL"}]
        /\ iberr' \in [Procs -> Errors]
    BY <1>1, ReportsTyped DEF IbFindBoard, NoDriver
  <2>2. handle' \in [Procs -> {"none", "open", "dead"}]
    BY <1>1 DEF IbFindBoard, NoDriver, OpenDriver
  <2>3. ran' \in [Procs -> Transfer]
    BY <1>1, ConstantsTyped DEF IbFindBoard, Forget
  <2> QED
    BY <1>1, <2>1, <2>2, <2>3 DEF IbFindBoard, inProcess
<1>2. ASSUME NEW tmo \in Timeouts, NEW eos \in EosModes, IbDev(p, tmo, eos) PROVE TypeOK'
  <2>1. /\ ibsta' \in [Procs -> SUBSET {"ERR", "TIMO", "END", "CMPL"}]
        /\ iberr' \in [Procs -> Errors]
    BY <1>2, ReportsTyped DEF IbDev, NoDriver
  <2>2. handle' \in [Procs -> {"none", "open", "dead"}]
    BY <1>2 DEF IbDev, NoDriver, OpenDriver
  <2>3. [used |-> TRUE, timeout |-> tmo, eos |-> eos] \in Descriptor
    BY DEF Descriptor
  <2>4. device' \in [Procs -> [Slots -> Descriptor]]
    <3> DEFINE d == [used |-> TRUE, timeout |-> tmo, eos |-> eos]
    <3>1. device' = device \/ \E s : device' = [device EXCEPT ![p][s] = d]
      BY <1>2 DEF IbDev
    <3> HIDE DEF d
    <3>2. d \in Descriptor
      BY <2>3 DEF d
    <3>3. ASSUME NEW s, device' = [device EXCEPT ![p][s] = d]
          PROVE  device' \in [Procs -> [Slots -> Descriptor]]
      BY <3>2, <3>3, RowTyped
    <3> QED
      BY <3>1, <3>3
  <2>5. ran' \in [Procs -> Transfer]
    BY <1>2, ConstantsTyped DEF IbDev, Forget
  <2> QED
    BY <1>2, <2>1, <2>2, <2>4, <2>5 DEF IbDev, inProcess
<1>3. ASSUME NEW s \in Slots, IbOnl(p, s) PROVE TypeOK'
  BY <1>3, ConstantsTyped, ChangeTyped DEF IbOnl
<1>4. ASSUME NEW s \in Slots, NEW tmo \in Timeouts, IbTmo(p, s, tmo) PROVE TypeOK'
  <2>1. device[p][s] \in Descriptor
    OBVIOUS
  <2>2. [device[p][s] EXCEPT !.timeout = tmo] \in Descriptor
    BY <2>1 DEF Descriptor
  <2> QED
    BY <1>4, <2>2, ChangeTyped DEF IbTmo
<1>5. ASSUME NEW s \in Slots, NEW eos \in EosModes, IbEos(p, s, eos) PROVE TypeOK'
  <2>1. device[p][s] \in Descriptor
    OBVIOUS
  <2>2. [device[p][s] EXCEPT !.eos = eos] \in Descriptor
    BY <2>1 DEF Descriptor
  <2> QED
    BY <1>5, <2>2, ChangeTyped DEF IbEos
<1>6. ASSUME NEW s \in Slots, NEW f \in Calls, Start(p, f, s) PROVE TypeOK'
  <2>1. f \in DeviceCalls \cup {"board"}
    BY CallsAssumption
  <2>2. pc' \in [Procs -> {"idle", "info", "set", "run"}]
    BY <1>6 DEF Start
  <2>3. fn' \in [Procs -> DeviceCalls \cup {"board"}] /\ ud' \in [Procs -> Slots]
    <3>1. CASE fn' = [fn EXCEPT ![p] = f] /\ ud' = [ud EXCEPT ![p] = s]
      BY <2>1, <3>1
    <3>2. CASE UNCHANGED <<fn, ud>>
      BY <3>2
    <3> QED
      BY <1>6, <3>1, <3>2 DEF Start
  <2>4. /\ ibsta' \in [Procs -> SUBSET {"ERR", "TIMO", "END", "CMPL"}]
        /\ iberr' \in [Procs -> Errors]
    BY <1>6, ReportsTyped DEF Start
  <2>5. ran' \in [Procs -> Transfer]
    BY <1>6, ConstantsTyped DEF Start, Forget
  <2> QED
    BY <1>6, <2>2, <2>3, <2>4, <2>5 DEF Start
<1>7. ASSUME NEW new \in Settings, IbConfigBoard(p, new) PROVE TypeOK'
  <2>1. CASE Lost(p)
    BY <2>1, LostTyped
  <2>2. CASE ~Lost(p)
    <3>1. Apply(new) /\ Succeed(p) /\ board' = [pad |-> new.pad, own |-> new.own]
            /\ UNCHANGED <<handle, device, pc, fn, ud, c, ran>>
      BY <1>7, <2>2 DEF IbConfigBoard
    <3>2. board' \in [pad : Pads, own : Owns]
      BY <3>1 DEF Settings
    <3>3. SettingsOK'
      BY <3>1, DriverTyped
    <3>4. /\ ibsta' \in [Procs -> SUBSET {"ERR", "TIMO", "END", "CMPL"}]
          /\ iberr' \in [Procs -> Errors]
      BY <3>1, ReportsTyped
    <3> QED
      BY <3>1, <3>2, <3>3, <3>4
  <2> QED
    BY <2>1, <2>2
<1>8. CASE Probe(p)
  <2>1. SettingsOK'
    BY <1>8, ReinitialisedTyped DEF Probe
  <2> QED
    BY <1>8, <2>1 DEF Probe
<1>9. CASE GetInfo(p)
  BY <1>9 DEF GetInfo
<1>10. CASE SetConfig(p)
  <2>1. SettingsOK'
    BY <1>10, MergedTyped, DriverTyped DEF SetConfig
  <2>2. c' \in [Procs -> Settings] /\ pc' \in [Procs -> {"idle", "info", "set", "run"}]
    BY <1>10, ConstantsTyped DEF SetConfig
  <2> QED
    BY <1>10, <2>1, <2>2 DEF SetConfig
<1>11. CASE Run(p)
  <2>1. PICK st \in Answers : Outcome(p, st)
    BY <1>11 DEF Run
  <2>2. MapStatus(st) \in Errors /\ "none" \in Errors
    BY DEF MapStatus, Errors
  <2>3. /\ ibsta' \in [Procs -> SUBSET {"ERR", "TIMO", "END", "CMPL"}]
        /\ iberr' \in [Procs -> Errors]
    BY <2>1, <2>2, ReportTyped DEF Outcome
  <2>4. [fn |-> fn[p], want |-> device[p][ud[p]], used |-> chip] \in Transfer
    BY DEF Transfer
  <2>5. ran' \in [Procs -> Transfer]
    BY <1>11, <2>4, ConstantsTyped DEF Run
  <2>6. pc' \in [Procs -> {"idle", "info", "set", "run"}]
    BY <1>11 DEF Run
  <2> QED
    BY <1>11, <2>3, <2>5, <2>6 DEF Run
<1>12. CASE NoMemory(p)
  <2>1. /\ ibsta' \in [Procs -> SUBSET {"ERR", "TIMO", "END", "CMPL"}]
        /\ iberr' \in [Procs -> Errors]
    BY <1>12, ReportsTyped DEF NoMemory
  <2>2. pc' \in [Procs -> {"idle", "info", "set", "run"}]
    BY <1>12 DEF NoMemory
  <2> QED
    BY <1>12, <2>1, <2>2 DEF NoMemory
<1>13. CASE Dropped(p)
  BY <1>13, LostTyped DEF Dropped
<1> QED
  BY <1>1, <1>2, <1>3, <1>4, <1>5, <1>6, <1>7, <1>8, <1>9, <1>10, <1>11, <1>12, <1>13
  DEF Process

LEMMA InitTyped == ApiInit => TypeOK
<1> SUFFICES ASSUME ApiInit PROVE TypeOK
  OBVIOUS
<1>1. SettingsOK
  BY ConstantsTyped DEF ApiInit, SettingsInit, SettingsOK
<1>2. "none" \in Errors
  BY DEF Errors
<1> QED
  BY <1>1, <1>2, ConstantsTyped DEF ApiInit, TypeOK

LEMMA ReloadTyped == ASSUME TypeOK, Reload PROVE TypeOK'
<1>1. SettingsOK'
  BY ConstantsTyped DEF Reload, Renew, SettingsOK
<1>2. handle' \in [Procs -> {"none", "open", "dead"}]
  BY DEF Reload, TypeOK
<1> QED
  BY <1>1, <1>2, ConstantsTyped DEF Reload, TypeOK

LEMMA StepTyped == ASSUME TypeOK, [ApiNext]_apiVars PROVE TypeOK'
  BY ProcessTyped, ReloadTyped DEF ApiNext, apiVars, TypeOK, SettingsOK, driverVars

\* What the API keeps stays within its types for any number of processes, whatever the
\* driver answers and whenever it is loaded anew.
THEOREM ApiTypes == ApiSpec => []TypeOK
<1>1. ApiInit => TypeOK
  BY InitTyped
<1>2. TypeOK /\ [ApiNext]_apiVars => TypeOK'
  BY StepTyped
<1> QED
  BY <1>1, <1>2, PTL DEF ApiSpec

------------------------------------------------------------------------------
(* A process that has the driver to itself *)

Alone == \A p, q \in Procs : p = q

\* What a call has read of the configuration is still the board's: a handle that lives was
\* not reloaded since.
Carried ==
    \A p \in Procs : pc[p] = "set" /\ handle[p] = "open" =>
        c[p].pad = board.pad /\ c[p].own = board.own

BoardInv == TypeOK /\ BoardKept /\ Carried

\* The steps that touch neither the configuration nor the board, nor start to carry anything.
LEMMA BoardUntouched ==
    ASSUME BoardInv, UNCHANGED <<config, board, c>>,
           \A p \in Procs : /\ pc'[p] = "set" => pc[p] = "set"
                            /\ handle'[p] = "open" => handle[p] = "open" \/ pc'[p] # "set"
    PROVE  BoardKept' /\ Carried'
  BY DEF BoardInv, BoardKept, Carried

LEMMA BoardStep ==
    ASSUME Alone \/ Boards = {}, BoardInv, NEW p \in Procs, Process(p)
    PROVE  BoardKept' /\ Carried'
<1> USE DEF BoardInv
<1>1. /\ pc \in [Procs -> {"idle", "info", "set", "run"}]
      /\ handle \in [Procs -> {"none", "open", "dead"}] /\ c \in [Procs -> Settings]
  BY DEF TypeOK
<1>2. CASE IbFindBoard(p)
  <2>1. UNCHANGED <<config, board, c, pc>> /\ pc[p] = "idle"
    BY <1>2 DEF IbFindBoard, inProcess, driverVars
  <2>2. \A q \in Procs : q # p => handle'[q] = handle[q]
    BY <1>1, <1>2 DEF IbFindBoard, NoDriver, OpenDriver
  <2> QED
    BY <1>1, <2>1, <2>2, BoardUntouched
<1>3. ASSUME NEW tmo \in Timeouts, NEW eos \in EosModes, IbDev(p, tmo, eos)
      PROVE  BoardKept' /\ Carried'
  <2>1. UNCHANGED <<config, board, c, pc>> /\ pc[p] = "idle"
    BY <1>3 DEF IbDev, inProcess, driverVars
  <2>2. \A q \in Procs : q # p => handle'[q] = handle[q]
    BY <1>1, <1>3 DEF IbDev, NoDriver, OpenDriver
  <2> QED
    BY <1>1, <2>1, <2>2, BoardUntouched
<1>4. ASSUME NEW s \in Slots, NEW d, Change(p, s, d) PROVE BoardKept' /\ Carried'
  <2>1. UNCHANGED <<config, board, c, pc, handle>>
    BY <1>4 DEF Change, inProcess, driverVars
  <2> QED
    BY <2>1, BoardUntouched
<1>5. ASSUME NEW s \in Slots, NEW f \in Calls, Start(p, f, s) PROVE BoardKept' /\ Carried'
  <2>1. UNCHANGED <<config, board, c, handle>>
    BY <1>5 DEF Start, driverVars
  <2>2. \A q \in Procs : pc'[q] = "set" => pc[q] = "set"
    BY <1>1, <1>5 DEF Start
  <2> QED
    BY <2>1, <2>2, BoardUntouched
<1>6. CASE Lost(p) \/ Run(p) \/ NoMemory(p)
  <2>1. UNCHANGED <<config, board, c, handle>>
    BY <1>6 DEF Lost, Run, NoMemory, driverVars
  <2>2. \A q \in Procs : pc'[q] = "set" => pc[q] = "set"
    BY <1>1, <1>6 DEF Lost, Run, NoMemory
  <2> QED
    BY <2>1, <2>2, BoardUntouched
<1>7. ASSUME NEW new \in Settings, IbConfigBoard(p, new), ~Lost(p)
      PROVE  BoardKept' /\ Carried'
  <2>1. config' = new /\ board' = [pad |-> new.pad, own |-> new.own] /\ pc[p] = "idle"
          /\ UNCHANGED <<handle, pc, c>> /\ p \in Boards
    BY <1>7 DEF IbConfigBoard, Apply
  <2>2. \A q \in Procs : q = p
    BY <2>1 DEF Alone
  <2> QED
    BY <2>1, <2>2 DEF BoardKept, Carried
<1>8. CASE Probe(p)
  <2>1. UNCHANGED <<config, board, c, pc, handle>>
    BY <1>8 DEF Probe, Reinitialise
  <2> QED
    BY <2>1, BoardUntouched
<1>9. CASE GetInfo(p)
  <2>1. UNCHANGED <<config, board, handle>> /\ c' = [c EXCEPT ![p] = config]
          /\ pc' = [pc EXCEPT ![p] = "set"]
    BY <1>9 DEF GetInfo, driverVars
  <2>2. BoardKept'
    BY <2>1 DEF BoardKept
  <2>3. \A q \in Procs : q # p => c'[q] = c[q] /\ pc'[q] = pc[q]
    BY <1>1, <2>1
  <2>4. c'[p] = config
    BY <1>1, <2>1
  <2> QED
    BY <2>1, <2>2, <2>3, <2>4 DEF BoardKept, Carried
<1>10. CASE SetConfig(p)
  <2>1. UNCHANGED <<board, handle>> /\ config' = Merged(p) /\ c' = [c EXCEPT ![p] = Default]
          /\ pc' = [pc EXCEPT ![p] = "run"] /\ pc[p] = "set" /\ handle[p] = "open"
    BY <1>10 DEF SetConfig, Apply
  <2>2. Merged(p).pad = c[p].pad /\ Merged(p).own = c[p].own
    BY MergedTyped
  <2>3. BoardKept'
    BY <2>1, <2>2 DEF BoardKept, Carried
  <2>4. \A q \in Procs : q # p => c'[q] = c[q] /\ pc'[q] = pc[q]
    BY <1>1, <2>1
  <2>5. pc'[p] = "run"
    BY <1>1, <2>1
  <2> QED
    BY <2>1, <2>3, <2>4, <2>5 DEF Carried
<1> QED
  BY <1>2, <1>3, <1>4, <1>5, <1>6, <1>7, <1>8, <1>9, <1>10
  DEF Process, IbOnl, IbTmo, IbEos, Dropped, IbConfigBoard

LEMMA BoardReload == ASSUME BoardInv, Reload PROVE BoardKept' /\ Carried'
<1>1. config' = Default /\ board' = DefaultBoard
  BY DEF Reload, Renew
<1>2. \A p \in Procs : handle'[p] # "open"
  BY DEF Reload, BoardInv, TypeOK
<1> QED
  BY <1>1, <1>2 DEF BoardKept, Carried, Default, DefaultBoard

\* For one process, or for any number of which none sets the board up, and for any settings
\* and descriptors: the calls that change the timeout and the EOS mode by reading the whole
\* configuration and writing it back never lose the interface's addresses or its T1, not
\* even over an unload in between.
THEOREM BoardSafe ==
    ASSUME Alone \/ Boards = {} PROVE ApiSpec => []BoardKept
<1>1. ApiInit => BoardInv
  BY InitTyped DEF ApiInit, BoardInv, BoardKept, Carried, SettingsInit, Default, DefaultBoard
<1>2. BoardInv /\ [ApiNext]_apiVars => BoardInv'
  <2> SUFFICES ASSUME BoardInv, [ApiNext]_apiVars PROVE BoardInv'
    OBVIOUS
  <2>1. TypeOK'
    BY StepTyped DEF BoardInv
  <2>2. CASE UNCHANGED apiVars
    BY <2>1, <2>2 DEF BoardInv, BoardKept, Carried, apiVars, driverVars
  <2>3. CASE Reload
    BY <2>1, <2>3, BoardReload DEF BoardInv
  <2>4. ASSUME NEW p \in Procs, Process(p) PROVE BoardInv'
    BY <2>1, <2>4, BoardStep DEF BoardInv
  <2> QED
    BY <2>2, <2>3, <2>4 DEF ApiNext
<1>3. BoardInv => BoardKept
  BY DEF BoardInv
<1> QED
  BY <1>1, <1>2, <1>3, PTL DEF ApiSpec

------------------------------------------------------------------------------

\* A configured call that is about to run finds the chip with its descriptor's settings.
SettingsIn ==
    \A p \in Procs :
        pc[p] = "run" /\ fn[p] \in Configured /\ handle[p] = "open" /\ chipOk =>
            /\ chip.timeout = device[p][ud[p]].timeout
            /\ chip.eos = device[p][ud[p]].eos

OwnInv == TypeOK /\ SettingsIn /\ TransfersUseOwnSettings

\* Between two calls a process, the only one, may do as it likes to the driver and its
\* descriptors: no settings are in use.
LEMMA BetweenCalls ==
    ASSUME Alone, OwnInv, NEW p \in Procs, pc'[p] # "run",
           ran' = ran \/ ran' = [ran EXCEPT ![p] = NoRun]
    PROVE  SettingsIn' /\ TransfersUseOwnSettings'
<1>1. \A q \in Procs : q = p
  BY DEF Alone
<1>2. SettingsIn'
  BY <1>1 DEF SettingsIn
<1>3. NoRun.fn = "none" /\ "none" \notin Configured
  BY DEF NoRun, Configured
<1>4. ran \in [Procs -> Transfer]
  BY DEF OwnInv, TypeOK
<1>5. TransfersUseOwnSettings'
  BY <1>1, <1>3, <1>4 DEF OwnInv, TransfersUseOwnSettings
<1> QED
  BY <1>2, <1>5

LEMMA OwnStep ==
    ASSUME Alone, OwnInv, NEW p \in Procs, Process(p)
    PROVE  SettingsIn' /\ TransfersUseOwnSettings'
<1>1. /\ pc \in [Procs -> {"idle", "info", "set", "run"}]
      /\ fn \in [Procs -> DeviceCalls \cup {"board"}] /\ ran \in [Procs -> Transfer]
  BY DEF OwnInv, TypeOK
<1>2. \A q \in Procs : q = p
  BY DEF Alone
<1>3. CASE IbFindBoard(p)
  BY <1>3, BetweenCalls DEF IbFindBoard, inProcess, Forget
<1>4. ASSUME NEW tmo \in Timeouts, NEW eos \in EosModes, IbDev(p, tmo, eos)
      PROVE  SettingsIn' /\ TransfersUseOwnSettings'
  BY <1>4, BetweenCalls DEF IbDev, inProcess, Forget
<1>5. ASSUME NEW s \in Slots, NEW d, Change(p, s, d)
      PROVE  SettingsIn' /\ TransfersUseOwnSettings'
  BY <1>5, BetweenCalls DEF Change, inProcess, Forget
<1>6. CASE Lost(p)
  <2>1. pc'[p] = "idle" /\ ran' = ran
    BY <1>1, <1>6 DEF Lost
  <2> QED
    BY <2>1, BetweenCalls
<1>7. ASSUME NEW new \in Settings, IbConfigBoard(p, new), ~Lost(p)
      PROVE  SettingsIn' /\ TransfersUseOwnSettings'
  BY <1>7, BetweenCalls DEF IbConfigBoard
<1>8. CASE Probe(p)
  BY <1>8, BetweenCalls DEF Probe
<1>9. ASSUME NEW s \in Slots, NEW f \in Calls, Start(p, f, s)
      PROVE  SettingsIn' /\ TransfersUseOwnSettings'
  <2>1. ran' = [ran EXCEPT ![p] = NoRun]
    BY <1>9 DEF Start, Forget
  <2>2. CASE f \in Configured \/ ~(f = "board" \/ device[p][s].used)
    <3>1. pc'[p] # "run"
      BY <1>1, <1>9, <2>2 DEF Start
    <3> QED
      BY <2>1, <3>1, BetweenCalls
  <2>3. CASE f \notin Configured /\ (f = "board" \/ device[p][s].used)
    <3>1. fn'[p] = f
      BY <1>1, <1>9, <2>3 DEF Start
    <3>2. SettingsIn'
      BY <1>2, <2>3, <3>1 DEF SettingsIn
    <3>3. NoRun.fn = "none" /\ "none" \notin Configured
      BY DEF NoRun, Configured
    <3>4. ran'[p] = NoRun
      BY <1>1, <2>1
    <3>5. TransfersUseOwnSettings'
      BY <1>2, <3>3, <3>4 DEF TransfersUseOwnSettings
    <3> QED
      BY <3>2, <3>5
  <2> QED
    BY <2>2, <2>3
<1>10. CASE GetInfo(p)
  <2>1. pc'[p] = "set" /\ ran' = ran
    BY <1>1, <1>10 DEF GetInfo
  <2> QED
    BY <2>1, BetweenCalls
<1>11. CASE SetConfig(p)
  <2>1. chip' = IF chipOk THEN Merged(p) ELSE chip
    BY <1>11 DEF SetConfig, Apply
  <2>2. UNCHANGED <<chipOk, device, ud, ran>>
    BY <1>11 DEF SetConfig, Apply
  <2>3. Merged(p).timeout = device[p][ud[p]].timeout /\ Merged(p).eos = device[p][ud[p]].eos
    BY MergedTyped DEF OwnInv
  <2>4. SettingsIn'
    BY <1>2, <2>1, <2>2, <2>3 DEF SettingsIn
  <2>5. TransfersUseOwnSettings'
    BY <2>2 DEF OwnInv, TransfersUseOwnSettings
  <2> QED
    BY <2>4, <2>5
<1>12. CASE Run(p)
  <2>1. pc'[p] # "run"
    BY <1>1, <1>12 DEF Run
  <2>2. SettingsIn'
    BY <1>2, <2>1 DEF SettingsIn
  <2>3. ran'[p] = IF chipOk THEN [fn |-> fn[p], want |-> device[p][ud[p]], used |-> chip]
                  ELSE NoRun
    BY <1>1, <1>12 DEF Run
  <2>4. pc[p] = "run" /\ handle[p] = "open"
    BY <1>12 DEF Run
  <2>5. CASE chipOk
    BY <1>2, <2>2, <2>3, <2>4, <2>5 DEF OwnInv, SettingsIn, TransfersUseOwnSettings
  <2>6. CASE ~chipOk
    <3>1. NoRun.fn = "none" /\ "none" \notin Configured
      BY DEF NoRun, Configured
    <3> QED
      BY <1>2, <2>2, <2>3, <2>6, <3>1 DEF TransfersUseOwnSettings
  <2> QED
    BY <2>2, <2>5, <2>6
<1>13. CASE NoMemory(p)
  <2>1. pc'[p] # "run" /\ ran' = ran
    BY <1>1, <1>13 DEF NoMemory
  <2> QED
    BY <2>1, BetweenCalls
<1> QED
  BY <1>3, <1>4, <1>5, <1>6, <1>7, <1>8, <1>9, <1>10, <1>11, <1>12, <1>13
  DEF Process, IbOnl, IbTmo, IbEos, Dropped

\* For one process with any number of descriptors, whatever it does to the board, to the
\* chip and through other descriptors between its calls, and whenever the driver is loaded
\* anew: a read, a write or a serial poll runs with its own descriptor's settings.
THEOREM OwnSettings ==
    ASSUME Alone PROVE ApiSpec => []TransfersUseOwnSettings
<1>1. ApiInit => OwnInv
  <2> SUFFICES ASSUME ApiInit PROVE OwnInv
    OBVIOUS
  <2>1. \A p \in Procs : pc[p] = "idle" /\ ran[p].fn = "none"
    BY DEF ApiInit, NoRun
  <2>2. "none" \notin Configured
    BY DEF Configured
  <2> QED
    BY <2>1, <2>2, InitTyped DEF OwnInv, SettingsIn, TransfersUseOwnSettings
<1>2. OwnInv /\ [ApiNext]_apiVars => OwnInv'
  <2> SUFFICES ASSUME OwnInv, [ApiNext]_apiVars PROVE OwnInv'
    OBVIOUS
  <2>1. TypeOK'
    BY StepTyped DEF OwnInv
  <2>2. CASE UNCHANGED apiVars
    BY <2>1, <2>2 DEF OwnInv, SettingsIn, TransfersUseOwnSettings, apiVars, driverVars
  <2>3. CASE Reload
    <3>1. \A p \in Procs : handle'[p] # "open"
      BY <2>3 DEF Reload, OwnInv, TypeOK
    <3>2. ran' = ran
      BY <2>3 DEF Reload
    <3> QED
      BY <2>1, <3>1, <3>2 DEF OwnInv, SettingsIn, TransfersUseOwnSettings
  <2>4. ASSUME NEW p \in Procs, Process(p) PROVE OwnInv'
    BY <2>1, <2>4, OwnStep DEF OwnInv
  <2> QED
    BY <2>2, <2>3, <2>4 DEF ApiNext
<1>3. OwnInv => TransfersUseOwnSettings
  BY DEF OwnInv
<1> QED
  BY <1>1, <1>2, <1>3, PTL DEF ApiSpec
==============================================================================

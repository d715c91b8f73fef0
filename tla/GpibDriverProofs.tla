-------------------------- MODULE GpibDriverProofs --------------------------
(* What the driver's life guarantees for any number of threads and removals. *)
EXTENDS GpibDriver, FiniteSets, FiniteSetTheorems, TLAPS

Loading    == {"none", "socket", "bind", "register", "capture", "pick", "wide", "unwide",
               "narrow", "map", "configure", "bringup"}
Unloading  == {"unconfigure", "release", "deregister", "unbind", "free"}

\* Removals to be told are removals that happened.
EventBound == events <= pulls

\* The fields of gpib_device say what is held, but for the window that is only tried.
Recorded ==
    /\ held \ {"wide"} = fields \ {"map"}
    /\ "wide" \in held => load = "unwide"

\* What is held at each point of a load, ...
Gained ==
    /\ load \in {"none", "socket", "bind"} => held = {}
    /\ load = "register" => held = {"table"}
    /\ load \in {"capture", "pick", "wide", "unwide", "narrow"} =>
          held \ {"wide"} = {"table", "client"}
    /\ load \in {"map", "configure"} => held = {"table", "client", "window"}
    /\ load = "configure" => "map" \in fields
    /\ load \in {"bringup", "up"} \/ (load = "shutdown" /\ chipOk) =>
          held = {"table", "client", "window", "config"} /\ "map" \in fields

\* ... and what is no longer held at each point of a teardown.
Given ==
    /\ load \in {"release", "deregister", "unbind", "free"} => "config" \notin held
    /\ load \in {"deregister", "unbind", "free"} => "window" \notin held
    /\ load \in {"unbind", "free"} => "client" \notin held
    /\ load = "free" => "table" \notin held

\* The chip is up only while the driver is, and a chip that is system controller is known
\* to be up.
ChipKnown ==
    /\ load \in Loading \cup Unloading => ~chipOk
    /\ chip = "on" => chipOk

\* Calls are made between a load and an unload, and the one past the lock holds it.
Locking ==
    /\ \A t \in Apps : app[t] # "out" => load = "up"
    /\ \A t \in Apps : app[t] \in {"in", "touch", "leave"} => lock = t

\* A removal that is not known is yet to be told.
Told == load \in {"bringup", "up"} /\ ~card /\ present => events > 0 \/ cb

\* opens counts the open handles; who has yet to be counted has none, who closes has one.
Counted ==
    /\ IsFiniteSet(handles) /\ opens = Cardinality(handles)
    /\ \A t \in Apps : app[t] \in {"wait", "in"} /\ kind[t] = "open" => t \notin handles
    /\ \A t \in Apps : app[t] \in {"wait", "in"} /\ kind[t] = "close" => t \in handles

\* Without a driver nothing is open.
Unopened == load = "none" => handles = {}

DriverInv ==
    /\ TypeOK /\ EventBound /\ Recorded /\ Gained /\ Given /\ ChipKnown /\ Locking /\ Told
    /\ Counted /\ Unopened

\* Every step leaves a well typed state.
LEMMA TypeStep ==
    ASSUME TypeOK, EventBound, Counted, [Next]_vars PROVE TypeOK'
<1>1. CASE LoadStep
  <2>1. CASE GpbInit
    BY <2>1 DEF GpbInit, cardVars, csVars, appVars, devVars, TypeOK, LoadStages
  <2>2. CASE Granted("socket", "bind", {}, {}) /\ UNCHANGED present
    BY <2>2 DEF Granted, cardVars, csVars, appVars, TypeOK, Resources, Fields, LoadStages
  <2>3. CASE Granted("bind", "register", {"table"}, {"table"}) /\ UNCHANGED present
    BY <2>3 DEF Granted, cardVars, csVars, appVars, TypeOK, Resources, Fields, LoadStages
  <2>4. CASE Granted("pick", "wide", {}, {}) /\ UNCHANGED present
    BY <2>4 DEF Granted, cardVars, csVars, appVars, TypeOK, Resources, Fields, LoadStages
  <2>5. CASE Granted("wide", "unwide", {"wide"}, {}) /\ UNCHANGED present
    BY <2>5 DEF Granted, cardVars, csVars, appVars, TypeOK, Resources, Fields, LoadStages
  <2>6. CASE Granted("narrow", "map", {"window"}, {"window"}) /\ UNCHANGED present
    BY <2>6 DEF Granted, cardVars, csVars, appVars, TypeOK, Resources, Fields, LoadStages
  <2>7. CASE Granted("map", "configure", {}, {"map"}) /\ UNCHANGED present
    BY <2>7 DEF Granted, cardVars, csVars, appVars, TypeOK, Resources, Fields, LoadStages
  <2>8. CASE Granted("configure", "bringup", {"config"}, {"config"}) /\ UNCHANGED present
    BY <2>8 DEF Granted, cardVars, csVars, appVars, TypeOK, Resources, Fields, LoadStages
  <2>9. CASE Register
    BY <2>9 DEF Register, Granted, cardVars, csVars, appVars, TypeOK, Resources, Fields,
       LoadStages
  <2>10. CASE Capture
    BY <2>10 DEF Capture, cardVars, csVars, appVars, devVars, TypeOK, LoadStages
  <2>11. CASE RefusedWide
    BY <2>11 DEF RefusedWide, cardVars, csVars, appVars, devVars, TypeOK, LoadStages
  <2>12. CASE ReleaseWide
    BY <2>12 DEF ReleaseWide, cardVars, csVars, appVars, devVars, TypeOK, LoadStages
  <2>13. CASE Bringup
    BY <2>13 DEF Bringup, ChipBringup, cardVars, csVars, appVars, devVars, TypeOK, LoadStages
  <2>14. CASE \E here \in {"socket", "bind", "register", "pick", "narrow", "map",
                        "configure"} : Refused(here)
    BY <2>14 DEF Refused, cardVars, csVars, appVars, devVars, TypeOK, LoadStages
  <2> QED BY <1>1, <2>1, <2>2, <2>3, <2>4, <2>5, <2>6, <2>7, <2>8, <2>9, <2>10, <2>11,
      <2>12, <2>13, <2>14 DEF LoadStep
<1>2. CASE Teardown \/ Free
  <2>1. CASE Shutdown
    BY <2>1 DEF Shutdown, csVars, appVars, TypeOK, LoadStages
  <2>2. CASE Release("unconfigure", "release", "config") /\ UNCHANGED csVars
    BY <2>2 DEF Release, cardVars, csVars, appVars, TypeOK, LoadStages
  <2>3. CASE Release("release", "deregister", "window") /\ UNCHANGED csVars
    BY <2>3 DEF Release, cardVars, csVars, appVars, TypeOK, LoadStages
  <2>4. CASE Deregister
    BY <2>4, DriverAssumption DEF Deregister, Release, cardVars, appVars, TypeOK, LoadStages
  <2>5. CASE Release("unbind", "free", "table") /\ UNCHANGED csVars
    BY <2>5 DEF Release, cardVars, csVars, appVars, TypeOK, LoadStages
  <2>6. CASE Free
    BY <2>6 DEF Free, cardVars, csVars, appVars, TypeOK, LoadStages
  <2> QED BY <1>2, <2>1, <2>2, <2>3, <2>4, <2>5, <2>6 DEF Teardown
<1>3. CASE GpbDeinit
  BY <1>3 DEF GpbDeinit, cardVars, csVars, appVars, devVars, TypeOK, LoadStages
<1>4. CASE \E t \in Apps : Caller(t) \/ \E k \in Kinds : Call(t, k)
  <2> PICK t \in Apps : Caller(t) \/ \E k \in Kinds : Call(t, k)
    BY <1>4
  <2>1. CASE \E k \in Kinds : Call(t, k)
    BY <2>1 DEF Call, cardVars, csVars, devVars, TypeOK
  <2>2. CASE Enter(t)
    BY <2>2 DEF Enter, cardVars, csVars, devVars, TypeOK
  <2>3. CASE Check(t) \/ Open(t)
    BY <2>3 DEF Check, Open, cardVars, csVars, devVars, TypeOK
  <2>4. CASE Touch(t) /\ kind[t] = "probe"
    <3>1. chip' \in {"off", "half", "on"} /\ chipOk' \in BOOLEAN
      BY <2>4 DEF Touch, ChipBringup
    <3> QED BY <2>4, <3>1 DEF Touch, csVars, TypeOK
  <2>5. CASE Touch(t) /\ kind[t] # "probe"
    BY <2>5 DEF Touch, csVars, TypeOK
  <2>6. CASE Leave(t)
    BY <2>6 DEF Leave, cardVars, csVars, devVars, TypeOK, Kinds, Controls
  <2>7. CASE Close(t)
    <3>1. opens' \in Nat
      <4>1. t \in handles
        BY <2>7 DEF Close, Counted
      <4>2. Cardinality(handles) \in Nat /\ Cardinality(handles) # 0
        BY <4>1, FS_CardinalityType, FS_EmptySet DEF Counted
      <4> QED BY <2>7, <4>2 DEF Close, Counted
    <3> QED BY <2>7, <3>1 DEF Close, cardVars, csVars, devVars, TypeOK
  <2> QED BY <2>1, <2>2, <2>3, <2>4, <2>5, <2>6, <2>7 DEF Caller
<1>5. CASE Callback \/ Pull \/ Insert
  <2>1. CASE CallbackLooks
    BY <2>1, DriverAssumption DEF CallbackLooks, cardVars, appVars, devVars, TypeOK
  <2>2. CASE CallbackNotes
    BY <2>2 DEF CallbackNotes, cardVars, appVars, TypeOK, Resources, Fields
  <2>3. CASE Pull
    <3>1. pulls' \in 0 .. MaxPulls /\ events' \in 0 .. MaxPulls
      BY <2>3, DriverAssumption DEF Pull, TypeOK, EventBound
    <3> QED BY <2>3, <3>1 DEF Pull, appVars, devVars, TypeOK
  <2>4. CASE Insert
    BY <2>4 DEF Insert, csVars, appVars, devVars, TypeOK
  <2> QED BY <1>5, <2>1, <2>2, <2>3, <2>4 DEF Callback
<1>6. CASE UNCHANGED vars
  BY <1>6 DEF vars, cardVars, csVars, appVars, devVars, TypeOK
<1> QED BY <1>1, <1>2, <1>3, <1>4, <1>5, <1>6 DEF Next, Loader

\* No removal is told that did not happen.
LEMMA EventStep ==
    ASSUME TypeOK, EventBound, [Next]_vars PROVE EventBound'
<1>1. CASE LoadStep
  BY <1>1 DEF LoadStep, GpbInit, Granted, Register, Capture, ReleaseWide, RefusedWide,
     Bringup, Refused, cardVars, csVars, EventBound
<1>2. CASE Teardown \/ Free
  BY <1>2 DEF Teardown, Shutdown, Release, Deregister, Free, cardVars, csVars, TypeOK,
     EventBound
<1>3. CASE GpbDeinit
  BY <1>3 DEF GpbDeinit, cardVars, csVars, EventBound
<1>4. CASE \E t \in Apps : Caller(t) \/ \E k \in Kinds : Call(t, k)
  BY <1>4 DEF Call, Caller, Enter, Check, Open, Close, Touch, Leave, cardVars, csVars, EventBound
<1>5. CASE Callback \/ Pull \/ Insert
  BY <1>5 DEF Callback, CallbackLooks, CallbackNotes, Pull, Insert, cardVars, csVars,
     TypeOK, EventBound
<1>6. CASE UNCHANGED vars
  BY <1>6 DEF vars, cardVars, csVars, EventBound
<1> QED BY <1>1, <1>2, <1>3, <1>4, <1>5, <1>6 DEF Next, Loader

\* What is held is recorded.
LEMMA RecordedStep ==
    ASSUME TypeOK, Recorded, Gained, Given, [Next]_vars PROVE Recorded'
<1>1. CASE LoadStep
  <2>1. CASE GpbInit
    BY <2>1 DEF GpbInit, devVars, Recorded, Gained
  <2>2. CASE Granted("socket", "bind", {}, {})
    BY <2>2 DEF Granted, Recorded, Gained
  <2>3. CASE Granted("bind", "register", {"table"}, {"table"})
    BY <2>3 DEF Granted, Recorded, Gained
  <2>4. CASE Granted("pick", "wide", {}, {})
    BY <2>4 DEF Granted, Recorded, Gained
  <2>5. CASE Granted("wide", "unwide", {"wide"}, {})
    BY <2>5 DEF Granted, Recorded, Gained
  <2>6. CASE Granted("narrow", "map", {"window"}, {"window"})
    BY <2>6 DEF Granted, Recorded, Gained
  <2>7. CASE Granted("map", "configure", {}, {"map"})
    BY <2>7 DEF Granted, Recorded, Gained
  <2>8. CASE Granted("configure", "bringup", {"config"}, {"config"})
    BY <2>8 DEF Granted, Recorded, Gained
  <2>9. CASE Register
    BY <2>9 DEF Register, Granted, Recorded, Gained
  <2>10. CASE Capture
    BY <2>10 DEF Capture, devVars, Recorded, Gained
  <2>11. CASE RefusedWide
    BY <2>11 DEF RefusedWide, devVars, Recorded, Gained
  <2>12. CASE ReleaseWide
    BY <2>12 DEF ReleaseWide, devVars, Recorded, Gained
  <2>13. CASE Bringup
    BY <2>13 DEF Bringup, ChipBringup, devVars, Recorded, Gained
  <2>14. CASE \E here \in {"socket", "bind", "register", "pick", "narrow", "map",
                        "configure"} : Refused(here)
    BY <2>14 DEF Refused, devVars, Recorded, Gained
  <2> QED BY <1>1, <2>1, <2>2, <2>3, <2>4, <2>5, <2>6, <2>7, <2>8, <2>9, <2>10, <2>11,
      <2>12, <2>13, <2>14 DEF LoadStep
<1>2. CASE Teardown \/ Free
  <2>1. CASE Shutdown
    BY <2>1 DEF Shutdown, Recorded
  <2>2. CASE Release("unconfigure", "release", "config")
    BY <2>2 DEF Release, Recorded
  <2>3. CASE Release("release", "deregister", "window")
    BY <2>3 DEF Release, Recorded
  <2>4. CASE Deregister
    BY <2>4 DEF Deregister, Release, Recorded
  <2>5. CASE Release("unbind", "free", "table")
    BY <2>5 DEF Release, Recorded
  <2>6. CASE Free
    <3>1. held = {}
      BY <2>6 DEF Free, TypeOK, Fields, Recorded, Given
    <3> QED BY <2>6, <3>1 DEF Free, Recorded
  <2> QED BY <1>2, <2>1, <2>2, <2>3, <2>4, <2>5, <2>6 DEF Teardown
<1>3. CASE GpbDeinit
  BY <1>3 DEF GpbDeinit, devVars, Recorded
<1>4. CASE \E t \in Apps : Caller(t) \/ \E k \in Kinds : Call(t, k)
  BY <1>4 DEF Call, Caller, Enter, Check, Open, Close, Touch, Leave, devVars, Recorded
<1>5. CASE Callback \/ Pull \/ Insert
  BY <1>5 DEF Callback, CallbackLooks, CallbackNotes, Pull, Insert, devVars, Recorded
<1>6. CASE UNCHANGED vars
  BY <1>6 DEF vars, devVars, Recorded
<1> QED BY <1>1, <1>2, <1>3, <1>4, <1>5, <1>6 DEF Next, Loader

\* A load gains one resource after the other.
LEMMA GainedStep ==
    ASSUME TypeOK, Recorded, Gained, Given, ChipKnown, Locking, [Next]_vars PROVE Gained'
<1>1. CASE LoadStep
  <2>1. CASE GpbInit
    BY <2>1 DEF GpbInit, Gained
  <2>2. CASE Granted("socket", "bind", {}, {})
    BY <2>2 DEF Granted, Gained
  <2>3. CASE Granted("bind", "register", {"table"}, {"table"})
    BY <2>3 DEF Granted, Gained
  <2>4. CASE Granted("pick", "wide", {}, {})
    BY <2>4 DEF Granted, Gained
  <2>5. CASE Granted("wide", "unwide", {"wide"}, {})
    BY <2>5 DEF Granted, Gained
  <2>6. CASE Granted("narrow", "map", {"window"}, {"window"})
    BY <2>6 DEF Granted, Recorded, Gained
  <2>7. CASE Granted("map", "configure", {}, {"map"})
    BY <2>7 DEF Granted, Gained
  <2>8. CASE Granted("configure", "bringup", {"config"}, {"config"})
    BY <2>8 DEF Granted, Gained
  <2>9. CASE Register
    BY <2>9 DEF Register, Granted, Gained
  <2>10. CASE Capture
    BY <2>10 DEF Capture, devVars, Gained
  <2>11. CASE RefusedWide
    BY <2>11 DEF RefusedWide, devVars, Gained
  <2>12. CASE ReleaseWide
    BY <2>12 DEF ReleaseWide, Gained
  <2>13. CASE Bringup
    BY <2>13 DEF Bringup, Gained
  <2>14. CASE \E here \in {"socket", "bind", "register", "pick", "narrow", "map",
                        "configure"} : Refused(here)
    BY <2>14 DEF Refused, devVars, Gained, ChipKnown, Loading
  <2> QED BY <1>1, <2>1, <2>2, <2>3, <2>4, <2>5, <2>6, <2>7, <2>8, <2>9, <2>10, <2>11,
      <2>12, <2>13, <2>14 DEF LoadStep
<1>2. CASE Teardown \/ Free
  <2>1. CASE Shutdown
    BY <2>1 DEF Shutdown, Gained
  <2>2. CASE Release("unconfigure", "release", "config")
    BY <2>2 DEF Release, Gained
  <2>3. CASE Release("release", "deregister", "window")
    BY <2>3 DEF Release, Gained
  <2>4. CASE Deregister
    BY <2>4 DEF Deregister, Release, Gained
  <2>5. CASE Release("unbind", "free", "table")
    BY <2>5 DEF Release, Gained
  <2>6. CASE Free
    <3>1. held = {}
      BY <2>6 DEF Free, TypeOK, Recorded, Given, Fields
    <3> QED BY <2>6, <3>1 DEF Free, Gained
  <2> QED BY <1>2, <2>1, <2>2, <2>3, <2>4, <2>5, <2>6 DEF Teardown
<1>3. CASE GpbDeinit
  BY <1>3 DEF GpbDeinit, devVars, Gained
<1>4. CASE \E t \in Apps : Caller(t) \/ \E k \in Kinds : Call(t, k)
  BY <1>4 DEF Call, Caller, Enter, Check, Open, Close, Touch, Leave, devVars, Gained, Locking
<1>5. CASE Callback \/ Pull \/ Insert
  <2>1. UNCHANGED <<held, fields, load, chipOk>>
    BY <1>5 DEF Callback, CallbackLooks, CallbackNotes, Pull, Insert, devVars
  <2> QED BY <2>1 DEF Gained
<1>6. CASE UNCHANGED vars
  BY <1>6 DEF vars, devVars, Gained
<1> QED BY <1>1, <1>2, <1>3, <1>4, <1>5, <1>6 DEF Next, Loader

\* A teardown gives one back after the other.
LEMMA GivenStep ==
    ASSUME TypeOK, Recorded, Gained, Given, ChipKnown, [Next]_vars PROVE Given'
<1>1. CASE LoadStep
  BY <1>1 DEF LoadStep, GpbInit, Granted, Register, Capture, ReleaseWide, RefusedWide,
     Bringup, Refused, Given
<1>2. CASE Teardown \/ Free
  BY <1>2 DEF Teardown, Shutdown, Release, Deregister, Free, Recorded, Given
<1>3. CASE GpbDeinit
  BY <1>3 DEF GpbDeinit, Given
<1>4. CASE \E t \in Apps : Caller(t) \/ \E k \in Kinds : Call(t, k)
  BY <1>4 DEF Call, Caller, Enter, Check, Open, Close, Touch, Leave, devVars, Given
<1>5. CASE Callback \/ Pull \/ Insert
  BY <1>5 DEF Callback, CallbackLooks, CallbackNotes, Pull, Insert, devVars, Given
<1>6. CASE UNCHANGED vars
  BY <1>6 DEF vars, devVars, Given
<1> QED BY <1>1, <1>2, <1>3, <1>4, <1>5, <1>6 DEF Next, Loader

\* The chip is known to be up when it is.
LEMMA ChipStep ==
    ASSUME TypeOK, ChipKnown, Locking, [Next]_vars PROVE ChipKnown'
<1>1. CASE LoadStep
  BY <1>1 DEF LoadStep, GpbInit, Granted, Register, Capture, ReleaseWide, RefusedWide,
     Bringup, ChipBringup, Refused, cardVars, devVars, TypeOK, ChipKnown, Loading, Unloading
<1>2. CASE Teardown \/ Free
  BY <1>2 DEF Teardown, Shutdown, Release, Deregister, Free, cardVars, ChipKnown, Unloading
<1>3. CASE GpbDeinit
  BY <1>3 DEF GpbDeinit, cardVars, devVars, ChipKnown, Loading, Unloading
<1>4. CASE \E t \in Apps : Caller(t) \/ \E k \in Kinds : Call(t, k)
  <2> PICK t \in Apps : Caller(t) \/ \E k \in Kinds : Call(t, k)
    BY <1>4
  <2>1. CASE Touch(t) /\ kind[t] = "probe"
    <3>1. load = "up" /\ load' = load /\ (chip' = "on" => chipOk')
      BY <2>1 DEF Touch, ChipBringup, Locking
    <3> QED BY <3>1 DEF ChipKnown, Loading, Unloading
  <2>2. CASE ~(Touch(t) /\ kind[t] = "probe")
    <3>1. UNCHANGED <<load, chip, chipOk>>
      BY <2>2 DEF Caller, Call, Enter, Check, Open, Close, Touch, Leave, cardVars, devVars
    <3> QED BY <3>1 DEF ChipKnown
  <2> QED BY <2>1, <2>2
<1>5. CASE Callback \/ Pull \/ Insert
  BY <1>5 DEF Callback, CallbackLooks, CallbackNotes, Pull, Insert, cardVars, devVars,
     ChipKnown
<1>6. CASE UNCHANGED vars
  BY <1>6 DEF vars, cardVars, devVars, ChipKnown
<1> QED BY <1>1, <1>2, <1>3, <1>4, <1>5, <1>6 DEF Next, Loader

\* The lock is held by the one call past it.
LEMMA LockingStep ==
    ASSUME TypeOK, Locking, [Next]_vars PROVE Locking'
<1>1. CASE LoadStep
  BY <1>1 DEF LoadStep, GpbInit, Granted, Register, Capture, ReleaseWide, RefusedWide,
     Bringup, Refused, appVars, Locking
<1>2. CASE Teardown \/ Free
  BY <1>2 DEF Teardown, Shutdown, Release, Deregister, Free, appVars, Locking
<1>3. CASE GpbDeinit
  BY <1>3 DEF GpbDeinit, appVars, Locking
<1>4. CASE \E t \in Apps : Caller(t) \/ \E k \in Kinds : Call(t, k)
  BY <1>4, DriverAssumption DEF Call, Caller, Enter, Check, Open, Close, Touch, Leave, TypeOK, Locking
<1>5. CASE Callback \/ Pull \/ Insert
  BY <1>5 DEF Callback, CallbackLooks, CallbackNotes, Pull, Insert, appVars, Locking
<1>6. CASE UNCHANGED vars
  BY <1>6 DEF vars, appVars, Locking
<1> QED BY <1>1, <1>2, <1>3, <1>4, <1>5, <1>6 DEF Next, Loader

\* No removal is forgotten.
LEMMA ToldStep ==
    ASSUME TypeOK, Gained, Told, [Next]_vars PROVE Told'
<1>1. CASE LoadStep
  BY <1>1 DEF LoadStep, GpbInit, Granted, Register, Capture, ReleaseWide, RefusedWide,
     Bringup, Refused, cardVars, csVars, Told
<1>2. CASE Teardown \/ Free
  BY <1>2 DEF Teardown, Shutdown, Release, Deregister, Free, Told
<1>3. CASE GpbDeinit
  BY <1>3 DEF GpbDeinit, Told
<1>4. CASE \E t \in Apps : Caller(t) \/ \E k \in Kinds : Call(t, k)
  <2>1. UNCHANGED <<load, card, present, events, cb>>
    BY <1>4 DEF Caller, Call, Enter, Check, Open, Close, Touch, Leave, cardVars, csVars, devVars
  <2> QED BY <2>1 DEF Told
<1>5. CASE Callback \/ Pull \/ Insert
  <2>1. CASE CallbackLooks
    <3>1. cb' = ~card /\ UNCHANGED <<load, card, present>>
      BY <2>1 DEF CallbackLooks, cardVars, devVars
    <3> QED BY <3>1 DEF Told
  <2>2. CASE CallbackNotes
    BY <2>2 DEF CallbackNotes, Told
  <2>3. CASE Pull
    <3>1. card /\ UNCHANGED <<load, present, cb>>
      BY <2>3 DEF Pull, devVars
    <3>2. load \in {"bringup", "up"} => events' > 0
      BY <2>3 DEF Pull, TypeOK, Gained
    <3> QED BY <3>1, <3>2 DEF Told
  <2>4. CASE Insert
    BY <2>4 DEF Insert, Told
  <2> QED BY <1>5, <2>1, <2>2, <2>3, <2>4 DEF Callback
<1>6. CASE UNCHANGED vars
  BY <1>6 DEF vars, cardVars, csVars, devVars, Told
<1> QED BY <1>1, <1>2, <1>3, <1>4, <1>5, <1>6 DEF Next, Loader

\* An open counts its handle, a close the one it gives back.
LEMMA CountedStep ==
    ASSUME TypeOK, Locking, Counted, Unopened, [Next]_vars PROVE Counted' /\ Unopened'
<1>0. IsFiniteSet({}) /\ Cardinality({}) = 0
  BY FS_EmptySet
<1>1. CASE LoadStep
  <2>1. CASE GpbInit
    BY <1>0, <2>1 DEF GpbInit, Counted, Unopened
  <2>2. CASE ~GpbInit
    <3>1. UNCHANGED appVars /\ load' # "none"
      BY <1>1, <2>2 DEF LoadStep, Granted, Register, Capture, ReleaseWide, RefusedWide, Bringup,
         Refused
    <3> QED BY <3>1 DEF appVars, Counted, Unopened
  <2> QED BY <2>1, <2>2
<1>2. CASE Teardown
  <2>1. UNCHANGED appVars /\ load' # "none"
    BY <1>2 DEF Teardown, Shutdown, Release, Deregister
  <2> QED BY <2>1 DEF appVars, Counted, Unopened
<1>3. CASE Free
  <2>1. \A t \in Apps : app'[t] = "out"
    BY <1>3 DEF Free, TypeOK, Locking
  <2> QED BY <1>0, <1>3, <2>1 DEF Free, Counted, Unopened
<1>4. CASE GpbDeinit
  BY <1>4 DEF GpbDeinit, appVars, Counted, Unopened
<1>5. CASE \E t \in Apps : Caller(t) \/ \E k \in Kinds : Call(t, k)
  <2> PICK t \in Apps : Caller(t) \/ \E k \in Kinds : Call(t, k)
    BY <1>5
  <2>1. CASE \E k \in Kinds : Call(t, k)
    BY <2>1 DEF Call, TypeOK, Counted, Unopened
  <2>2. CASE Enter(t) \/ Check(t) \/ Touch(t)
    <3>1. UNCHANGED <<kind, opens, handles, load>>
      BY <2>2 DEF Enter, Check, Touch
    <3>2. \A u \in Apps : app'[u] \in {"wait", "in"} => app[u] \in {"wait", "in"}
      BY <2>2 DEF Enter, Check, Touch, TypeOK
    <3> QED BY <3>1, <3>2 DEF Counted, Unopened
  <2>3. CASE Leave(t)
    <3>1. UNCHANGED <<opens, handles, load>>
      BY <2>3 DEF Leave
    <3>2. \A u \in Apps : app'[u] \in {"wait", "in"} => app[u] = app'[u] /\ kind[u] = kind'[u]
      BY <2>3 DEF Leave, TypeOK
    <3> QED BY <3>1, <3>2 DEF Counted, Unopened
  <2>4. CASE Open(t)
    <3>1. t \notin handles /\ load = "up" /\ load' = load
      BY <2>4 DEF Open, Counted, Locking
    <3>2. IsFiniteSet(handles') /\ opens' = Cardinality(handles')
      BY <2>4, <3>1, FS_AddElement DEF Open, Counted
    <3>3. \A u \in Apps : app'[u] \in {"wait", "in"} => u # t /\ app[u] = app'[u]
      BY <2>4 DEF Open, TypeOK
    <3>4. handles' = handles \cup {t} /\ kind' = kind
      BY <2>4 DEF Open
    <3> QED BY <3>1, <3>2, <3>3, <3>4 DEF Counted, Unopened
  <2>5. CASE Close(t)
    <3>1. t \in handles /\ load = "up" /\ load' = load
      BY <2>5 DEF Close, Counted, Locking
    <3>2. IsFiniteSet(handles') /\ opens' = Cardinality(handles')
      BY <2>5, <3>1, FS_RemoveElement DEF Close, Counted
    <3>3. \A u \in Apps : app'[u] \in {"wait", "in"} => u # t /\ app[u] = app'[u]
      BY <2>5 DEF Close, TypeOK
    <3>4. handles' = handles \ {t} /\ kind' = kind
      BY <2>5 DEF Close
    <3> QED BY <3>1, <3>2, <3>3, <3>4 DEF Counted, Unopened
  <2> QED BY <2>1, <2>2, <2>3, <2>4, <2>5 DEF Caller
<1>6. CASE Callback \/ Pull \/ Insert
  <2>1. UNCHANGED appVars /\ load' = load
    BY <1>6 DEF Callback, CallbackLooks, CallbackNotes, Pull, Insert
  <2> QED BY <2>1 DEF appVars, Counted, Unopened
<1>7. CASE UNCHANGED vars
  BY <1>7 DEF vars, appVars, Counted, Unopened
<1> QED BY <1>1, <1>2, <1>3, <1>4, <1>5, <1>6, <1>7 DEF Next, Loader

------------------------------------------------------------------------------

\* The driver starts in the invariant.
LEMMA DriverInit == Init => DriverInv
<1> SUFFICES ASSUME Init PROVE DriverInv
  OBVIOUS
<1>1. TypeOK /\ EventBound
  <2>1. 0 \in 0 .. MaxPulls
    BY DriverAssumption
  <2>2. pulls \in 0 .. MaxPulls /\ events \in 0 .. MaxPulls /\ EventBound
    BY <2>1 DEF Init, EventBound
  <2>3. app \in [Apps -> {"out", "wait", "in", "touch", "leave"}] /\ kind \in [Apps -> Kinds]
    BY DEF Init, Kinds, Controls
  <2>4. card \in BOOLEAN /\ present \in BOOLEAN /\ chipOk \in BOOLEAN /\ cb \in BOOLEAN
    BY DEF Init
  <2>5. held \subseteq Resources /\ fields \subseteq Fields
    BY DEF Init
  <2>6. /\ load \in LoadStages /\ chip \in {"off", "half", "on"}
        /\ lock \in Apps \cup {"none", "loader"} /\ opens \in Nat /\ handles \subseteq Apps
    BY DEF Init, LoadStages
  <2> QED BY <2>2, <2>3, <2>4, <2>5, <2>6 DEF TypeOK
<1>2. Recorded
  BY DEF Init, Recorded
<1>3. Gained
  BY DEF Init, Gained
<1>4. Given
  BY DEF Init, Given
<1>5. ChipKnown /\ Locking /\ Told
  BY DEF Init, ChipKnown, Locking, Told
<1>6. Counted /\ Unopened
  BY FS_EmptySet DEF Init, Counted, Unopened
<1> QED BY <1>1, <1>2, <1>3, <1>4, <1>5, <1>6 DEF DriverInv

\* DriverInv is an invariant: through every order of loads, refusals, calls, removals,
\* callbacks and unloads, the fields of gpib_device say what Card Services holds, the chip
\* is known to be up when it is, one call is past the lock, and no removal is forgotten.
THEOREM DriverCorrect == Spec => []DriverInv
<1>1. DriverInv /\ [Next]_vars => DriverInv'
  BY TypeStep, EventStep, RecordedStep, GainedStep, GivenStep, ChipStep, LockingStep,
     ToldStep, CountedStep DEF DriverInv
<1> QED BY DriverInit, <1>1, PTL DEF Spec

\* The device record keeps its shape whatever is called and whatever Card Services does; in
\* particular opens never passes below zero, as every close has an open before it.
THEOREM DriverTypes == Spec => []TypeOK
<1>1. DriverInv => TypeOK
  BY DEF DriverInv
<1> QED BY DriverCorrect, <1>1, PTL

\* A load that was refused anything, and an unload, leave nothing with Card Services:
\* teardown follows the fields, and they record all that bringup was granted.
THEOREM NoLeak == Spec => []NothingLeaks
<1>1. DriverInv => NothingLeaks
  BY DEF DriverInv, Gained, NothingLeaks
<1> QED BY DriverCorrect, <1>1, PTL

\* An unloaded driver does not leave the chip as system controller: teardown shuts down a
\* chip that chip_ok says is up, and a chip that is system controller always is.
THEOREM BusFree == Spec => []BusReleased
<1>1. DriverInv => BusReleased
  BY DEF DriverInv, ChipKnown, Loading, BusReleased
<1> QED BY DriverCorrect, <1>1, PTL

\* Registers are reached by one thread at a time, through a mapped window of a configured
\* card: calls are made between load and unload and the lock keeps them apart.
THEOREM SafeRegisters == Spec => []RegistersSafe
<1>1. DriverInv => RegistersSafe
  <2> SUFFICES ASSUME DriverInv PROVE RegistersSafe
    OBVIOUS
  <2>1. ASSUME NEW t \in Touching
        PROVE  held = {"table", "client", "window", "config"} /\ "map" \in fields
    <3>1. load \in {"bringup", "up"} \/ (load = "shutdown" /\ chipOk)
      BY DEF DriverInv, Locking, Touching
    <3> QED BY <3>1 DEF DriverInv, Gained
  <2>2. ASSUME NEW s \in Touching, NEW t \in Touching PROVE s = t
    <3>1. CASE load = "up"
      <4>1. ASSUME NEW u \in Touching PROVE lock = u
        BY <3>1 DEF DriverInv, Locking, Touching
      <4> QED BY <4>1
    <3>2. CASE load # "up"
      <4>1. ASSUME NEW u \in Touching PROVE u = "loader"
        BY <3>2 DEF DriverInv, Locking, Touching
      <4> QED BY <4>1
    <3> QED BY <3>1, <3>2
  <2> QED BY <2>1, <2>2 DEF RegistersSafe
<1> QED BY DriverCorrect, <1>1, PTL

\* Once the callback has been told of a removal the driver knows it, for a removal during
\* the load too: card_present is set before the client can be called back.
THEOREM KnownRemoval == Spec => []RemovalKnown
<1>1. DriverInv => RemovalKnown
  BY DEF DriverInv, Told, RemovalKnown
<1> QED BY DriverCorrect, <1>1, PTL

\* Teardown releases the configuration with the chip shut down, the window without a
\* configuration, the client without either, and the table of calls last.
THEOREM InOrder == Spec => ReleasedInOrder
<1> DEFINE Ordered ==
      \A r \in held \ held' :
          /\ r = "config" => ~chipOk
          /\ r = "window" => "config" \notin held
          /\ r = "client" => held \cap {"config", "wide", "window"} = {}
          /\ r = "table" => held = {"table"}
<1>1. DriverInv /\ [Next]_vars => [Ordered]_vars
  <2> SUFFICES ASSUME DriverInv, Next PROVE Ordered
    BY DEF devVars
  <2>1. CASE UNCHANGED held
    BY <2>1
  <2>2. CASE ReleaseWide
    BY <2>2 DEF ReleaseWide
  <2>3. CASE Release("unconfigure", "release", "config")
    BY <2>3 DEF Release, DriverInv, ChipKnown, Unloading
  <2>4. CASE Release("release", "deregister", "window")
    BY <2>4 DEF Release, DriverInv, Given
  <2>5. CASE Release("deregister", "unbind", "client")
    <3>1. "config" \notin held /\ "window" \notin held /\ "wide" \notin held
      BY <2>5 DEF Release, DriverInv, Given, Recorded
    <3>2. held \ held' \subseteq {"client"}
      BY <2>5 DEF Release
    <3> QED BY <3>1, <3>2
  <2>6. CASE Release("unbind", "free", "table")
    <3>1. held \subseteq {"table"}
      BY <2>6 DEF Release, DriverInv, Given, Recorded, TypeOK, Resources
    <3>2. held \ held' \subseteq {"table"}
      BY <2>6 DEF Release
    <3> QED BY <3>1
  <2>7. CASE LoadStep
    <3>1. held \subseteq held' \/ ReleaseWide
      BY <2>7 DEF LoadStep, GpbInit, Granted, Register, Capture, RefusedWide, Bringup,
         Refused, devVars
    <3> QED BY <3>1, <2>2
  <2>8. CASE Teardown
    BY <2>8, <2>3, <2>4, <2>5, <2>6 DEF Teardown, Shutdown, Deregister
  <2>9. CASE Free \/ GpbDeinit \/ Callback \/ Pull \/ Insert
    BY <2>9 DEF Free, GpbDeinit, Callback, CallbackLooks, CallbackNotes, Pull, Insert,
       devVars
  <2>10. CASE \E t \in Apps : Caller(t) \/ \E k \in Kinds : Call(t, k)
    BY <2>10 DEF Caller, Call, Enter, Check, Open, Close, Touch, Leave, devVars
  <2> QED BY <2>7, <2>8, <2>9, <2>10 DEF Next, Loader
<1>2. Spec => [][Ordered]_vars
  BY DriverCorrect, <1>1, PTL DEF Spec
<1> QED BY <1>2 DEF ReleasedInOrder
=============================================================================

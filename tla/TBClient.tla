------------------------------ MODULE TBClient ------------------------------
(***************************************************************************)
(* The connection of the gateway to ThingsBoard (gateway/tb_client.py).    *)
(*                                                                         *)
(* Two threads may call connect(): the service's main thread, at start,    *)
(* and the client's own thread, run(), which supervises paho's network     *)
(* loop.  A third one, the stopper, calls disconnect() and then stop().    *)
(* paho and the broker are external: the network loop connects again by    *)
(* itself while it is alive, and may die with or without calling           *)
(* _on_disconnect.  Provisioning, certificates and rate limit values are   *)
(* left out.                                                               *)
(***************************************************************************)
EXTENDS Naturals

CONSTANTS
    MaxFaults,  \* losses of the connection and deaths of the network loop
    MaxRefused  \* connection attempts the broker refuses

ASSUME TBClientAssumption == MaxFaults \in Nat /\ MaxRefused \in Nat

Main == "main"
Supervisor == "supervisor"
Threads == {Main, Supervisor}
Nobody == "nobody"

VARIABLES
    sessionUp,      \* the library's connected flag, stale when the loop dies silently
    isConnected,    \* __is_connected
    rateLimits,     \* client.rate_limits_received
    loopAlive,      \* paho's network loop thread
    stopped, paused, connecting, initialDone,  \* the flags of the same names
    stopEvent,      \* __stop_event
    lock,           \* __connection_lock: its owner
    pc,             \* where each thread is
    stopPc,         \* where disconnect() and stop() are
    faults, refused

clientVars == <<sessionUp, isConnected, rateLimits, loopAlive>>
flagVars == <<stopped, paused, connecting, initialDone, stopEvent>>
connectionVars == <<clientVars, flagVars, lock, pc, stopPc, faults, refused>>

NetworkLoopRunning == loopAlive

\* Mutant: a connect() that is under way is not looked at.
ShouldSuperviseEagerly ==
    initialDone /\ ~stopped /\ ~paused /\ ~NetworkLoopRunning

ShouldSuperviseReconnect ==
    initialDone /\ ~stopped /\ ~paused /\ ~connecting /\ ~NetworkLoopRunning

\* What the loop of connect() waits for.
Established == sessionUp /\ NetworkLoopRunning

ClientInit ==
    /\ sessionUp = FALSE /\ isConnected = FALSE /\ rateLimits = FALSE /\ loopAlive = FALSE
    /\ stopped = FALSE /\ paused = FALSE /\ connecting = FALSE /\ initialDone = FALSE
    /\ stopEvent = FALSE /\ lock = Nobody
    /\ pc = [t \in Threads |-> IF t = Main THEN "call" ELSE "check"]
    /\ stopPc = "none" /\ faults = 0 /\ refused = 0

-----------------------------------------------------------------------------
(* connect()                                                               *)

\* The head of connect(): the lock is taken and a stop() or disconnect()
\* that came before is forgotten.
EnterConnect(t) ==
    /\ pc[t] = "call" /\ lock = Nobody
    /\ lock' = t /\ connecting' = TRUE /\ paused' = FALSE /\ stopped' = FALSE
    /\ pc' = [pc EXCEPT ![t] = "loop"]
    /\ UNCHANGED <<clientVars, initialDone, stopEvent, stopPc, faults, refused>>

\* __send_connect(): paho opens the session and starts its loop, or raises,
\* which the loop of connect() survives.
SendConnect(t) ==
    /\ pc[t] = "loop" /\ ~Established /\ ~stopped /\ ~paused
    /\ \/ loopAlive' = TRUE /\ sessionUp' \in {FALSE, sessionUp} /\ UNCHANGED refused
       \/ refused < MaxRefused /\ refused' = refused + 1 /\ UNCHANGED <<loopAlive, sessionUp>>
    /\ UNCHANGED <<isConnected, rateLimits, flagVars, lock, pc, stopPc, faults>>

LeaveConnect(t) ==
    /\ pc[t] = "loop" /\ (Established \/ stopped)
    /\ lock' = Nobody /\ connecting' = FALSE
    /\ pc' = [pc EXCEPT ![t] = IF t = Main THEN "done" ELSE "wait"]
    /\ UNCHANGED <<clientVars, stopped, paused, initialDone, stopEvent, stopPc, faults, refused>>

-----------------------------------------------------------------------------
(* run(): the supervisor                                                   *)

RunCheck ==
    /\ pc[Supervisor] = "check"
    /\ pc' = [pc EXCEPT ![Supervisor] = CASE stopped -> "ended"
                                          [] ~stopped /\ ShouldSuperviseReconnect -> "call"
                                          [] OTHER -> "wait"]
    /\ UNCHANGED <<clientVars, flagVars, lock, stopPc, faults, refused>>

RunWait ==
    /\ pc[Supervisor] = "wait"
    /\ pc' = [pc EXCEPT ![Supervisor] = IF stopEvent THEN "ended" ELSE "check"]
    /\ UNCHANGED <<clientVars, flagVars, lock, stopPc, faults, refused>>

-----------------------------------------------------------------------------
(* disconnect() and stop(), called one after the other                     *)

Disconnect ==
    /\ stopPc = "none" /\ pc[Main] = "done"
    /\ paused' = TRUE /\ stopPc' = "paused"
    /\ UNCHANGED <<clientVars, stopped, connecting, initialDone, stopEvent, lock, pc, faults, refused>>

\* client.disconnect(): a clean disconnect ends the network loop.
DisconnectClient ==
    /\ stopPc = "paused"
    /\ sessionUp' = FALSE /\ isConnected' = FALSE /\ loopAlive' = FALSE
    /\ stopPc' = "disconnected"
    /\ UNCHANGED <<rateLimits, flagVars, lock, pc, faults, refused>>

\* Mutant: only the flag is set.
StopWithoutEvent ==
    /\ stopPc = "disconnected"
    /\ stopped' = TRUE /\ stopPc' = "stopped"
    /\ UNCHANGED <<clientVars, paused, connecting, initialDone, stopEvent, lock, pc, faults, refused>>

Stop ==
    /\ stopPc = "disconnected"
    /\ stopped' = TRUE /\ stopEvent' = TRUE /\ stopPc' = "stopped"
    /\ UNCHANGED <<clientVars, paused, connecting, initialDone, lock, pc, faults, refused>>

-----------------------------------------------------------------------------
(* The network loop of paho, and its callbacks                             *)

\* Mutant: the rate limits are waited for again after a reconnection.
OnConnectWaiting ==
    /\ loopAlive /\ ~sessionUp
    /\ sessionUp' = TRUE /\ isConnected' = initialDone
    /\ initialDone' = TRUE
    /\ UNCHANGED <<rateLimits, loopAlive, stopped, paused, connecting, stopEvent, lock, pc, stopPc, faults, refused>>

OnConnect ==
    /\ loopAlive /\ ~sessionUp
    /\ sessionUp' = TRUE /\ isConnected' = TRUE
    /\ rateLimits' = (rateLimits \/ initialDone)
    /\ initialDone' = TRUE
    /\ UNCHANGED <<loopAlive, stopped, paused, connecting, stopEvent, lock, pc, stopPc, faults, refused>>

\* The answer to the library's request for its rate limits.
RateLimitsReceived ==
    /\ sessionUp /\ loopAlive /\ ~rateLimits
    /\ rateLimits' = TRUE
    /\ UNCHANGED <<sessionUp, isConnected, loopAlive, flagVars, lock, pc, stopPc, faults, refused>>

\* A lost connection: the loop goes on, or ends as after a clean disconnect.
OnDisconnect ==
    /\ loopAlive /\ sessionUp /\ faults < MaxFaults
    /\ sessionUp' = FALSE /\ isConnected' = FALSE /\ faults' = faults + 1
    /\ loopAlive' \in BOOLEAN
    /\ UNCHANGED <<rateLimits, flagVars, lock, pc, stopPc, refused>>

\* An error in the loop ends it without a callback: the flags stay as they are.
LoopDies ==
    /\ loopAlive /\ faults < MaxFaults
    /\ loopAlive' = FALSE /\ faults' = faults + 1
    /\ UNCHANGED <<sessionUp, isConnected, rateLimits, flagVars, lock, pc, stopPc, refused>>

ThreadStep(t) == EnterConnect(t) \/ SendConnect(t) \/ LeaveConnect(t)
Stopping == Disconnect \/ DisconnectClient \/ Stop
Paho == OnConnect \/ RateLimitsReceived \/ OnDisconnect \/ LoopDies

ClientNext == (\E t \in Threads : ThreadStep(t)) \/ RunCheck \/ RunWait \/ Stopping \/ Paho

\* Threads run; paho's loop connects when the broker answers and asks for
\* its limits.  Nobody is obliged to stop the client, once begun it goes on.
Fairness ==
    /\ \A t \in Threads : WF_connectionVars(ThreadStep(t))
    /\ WF_connectionVars(RunCheck) /\ WF_connectionVars(RunWait)
    /\ WF_connectionVars(DisconnectClient) /\ WF_connectionVars(Stop)
    /\ WF_connectionVars(OnConnect) /\ WF_connectionVars(RateLimitsReceived)

ClientSpec == ClientInit /\ [][ClientNext]_connectionVars /\ Fairness

-----------------------------------------------------------------------------
\* The startup thread connects once; only the client's own thread supervises.
TBClientTypeOK ==
    /\ sessionUp \in BOOLEAN /\ isConnected \in BOOLEAN /\ rateLimits \in BOOLEAN
    /\ loopAlive \in BOOLEAN /\ stopped \in BOOLEAN /\ paused \in BOOLEAN
    /\ connecting \in BOOLEAN /\ initialDone \in BOOLEAN /\ stopEvent \in BOOLEAN
    /\ lock \in Threads \cup {Nobody}
    /\ pc[Main] \in {"call", "loop", "done"}
    /\ pc[Supervisor] \in {"check", "call", "loop", "wait", "ended"}
    /\ stopPc \in {"none", "paused", "disconnected", "stopped"}
    /\ faults \in 0..MaxFaults /\ refused \in 0..MaxRefused

\* Every variable is of its type, and one thread drives the connection at a time:
\* neither runs the retry loop beside the other, nor queues at the lock to run it
\* once more when the other is done, and the flag they go by is up exactly while one
\* runs (connect(), lines 449-454 and 511; __should_supervise_reconnect, line 540).
OneConnectLoop ==
    /\ TBClientTypeOK
    /\ \A t, u \in Threads : pc[t] \in {"call", "loop"} /\ pc[u] = "loop" => t = u
    /\ connecting <=> \E t \in Threads : pc[t] = "loop"

\* After stop() the supervisor decides on no other connect(): the flag that a
\* connect() decided before clears is not what it goes by (run(), lines 544-551).
NoConnectDecidedAfterStop ==
    [][stopEvent /\ pc'[Supervisor] = "call" => pc[Supervisor] = "call"]_connectionVars

\* After stop() the supervisor decides on no other connect(), and its thread ends,
\* also when a connect() decided before has undone the stop by clearing the flags:
\* the event outlives them (run(), lines 544-551).
SupervisorEnds ==
    /\ NoConnectDecidedAfterStop
    /\ stopPc = "stopped" ~> (pc[Supervisor] = "ended")

\* Once the faults are over the gateway is connected and has its rate limits,
\* so that is_connected() answers True, or somebody stops it.  A network loop that
\* died while the connection is wanted is started again, even when the client's own
\* flag still says connected (the comment at lines 465-468).
EventuallyConnected ==
    /\ (initialDone /\ ~loopAlive /\ ~paused /\ ~stopped) ~> (loopAlive \/ paused \/ stopEvent)
    /\ <>[]((isConnected /\ rateLimits /\ loopAlive) \/ stopPc # "none")

=============================================================================

-------------------------- MODULE LifecycleProofs --------------------------
(***************************************************************************)
(* Theorems about main's life, for any number of health requests: Redis is *)
(* closed last, and only a signal uvicorn heard ends the process.          *)
(***************************************************************************)
EXTENDS Lifecycle, TLAPS

Types ==
  /\ proc \in {"booting", "starting", "running", "closing", "exited", "down"}
  /\ loop \in [Loops -> {"unstarted", "waiting", "cycling", "returned", "died"}]
  /\ server \in {"unstarted", "binding", "serving", "draining", "returned"}
  /\ {shouldExit, stop, held} \subseteq BOOLEAN
  /\ requests \in 0 .. MaxRequests /\ client \in {"none", "open"}
  /\ told \in {"nowhere", "booting", "starting", "running"}

(* Who may be doing something where.  Only a server that has begun and not *)
(* returned has requests, and main is past gather only with all tasks over *)
(* - a loop that died does not change that.                                *)
Alive ==
  /\ proc \in {"booting", "starting", "down"} =>
       /\ server = "unstarted" /\ shouldExit = FALSE
       /\ \A l \in Loops : loop[l] = "unstarted"
  /\ proc \in {"closing", "exited"} => AllOver
  /\ requests > 0 => server \in {"serving", "draining"}

(* Why the server leaves: it was told, and the signal came while it        *)
(* listened.                                                               *)
Told ==
  /\ shouldExit = TRUE => held = TRUE /\ told = "running"
  /\ server \in {"draining", "returned"} => shouldExit = TRUE

LifeInv == Types /\ Alive /\ Told /\ ClosedLast

(* A process that died has left nothing behind. *)
LEMMA ForgottenInv ==
  ASSUME Forgets, proc' \in {"booting", "down"}, held' \in BOOLEAN,
         told' \in {"nowhere", "booting", "starting", "running"}
  PROVE  LifeInv'
<1>1. /\ server' = "unstarted" /\ client' = "none" /\ requests' = 0
      /\ shouldExit' = FALSE /\ stop' = FALSE
      /\ loop' \in [Loops -> {"unstarted"}] /\ \A l \in Loops : loop'[l] = "unstarted"
  BY DEF Forgets
<1>2. loop' \in [Loops -> {"unstarted", "waiting", "cycling", "returned", "died"}]
  BY <1>1
<1>3. {shouldExit', stop', held'} \subseteq BOOLEAN
  BY <1>1
<1>4. Types'
  BY <1>1, <1>2, <1>3, RequestsAssumption DEF Types
<1>5. Alive' /\ Told' /\ ClosedLast'
  BY <1>1 DEF Alive, Told, ClosedLast
<1> QED BY <1>4, <1>5 DEF LifeInv

LEMMA LifeInvStep == LifeInv /\ [Next]_vars => LifeInv'
<1> SUFFICES ASSUME LifeInv, [Next]_vars PROVE LifeInv'
  OBVIOUS
<1> USE RequestsAssumption DEF LifeInv, Loops, RedisLoops
<1>1. CASE Start
  BY <1>1 DEF Start, tasks, outside, Types, Alive, Told, ClosedLast, AllOver
<1>2. ASSUME NEW httpxRaises \in BOOLEAN, FirstSteps(httpxRaises) PROVE LifeInv'
  BY <1>2 DEF FirstSteps, GetClient, outside, Types, Alive, Told, ClosedLast, AllOver
<1>3. ASSUME NEW l \in Loops, LoopHead(l) PROVE LifeInv'
  <2>1. /\ loop \in [Loops -> {"unstarted", "waiting", "cycling", "returned", "died"}]
        /\ loop[l] = "waiting" /\ client' \in {client, "open"}
        /\ loop' \in {[loop EXCEPT ![l] = "returned"], [loop EXCEPT ![l] = "cycling"]}
        /\ (loop'[l] = "cycling" => client' = "open")
        /\ UNCHANGED <<proc, server, shouldExit, stop, requests, mute, held, told>>
    BY <1>3 DEF LoopHead, GetClient, outside, Types
  <2>2. proc = "running"
    BY <2>1 DEF Types, Alive, AllOver
  <2>3. Types'
    BY <2>1 DEF Types
  <2> QED BY <2>1, <2>2, <2>3 DEF Types, Alive, Told, ClosedLast
<1>4. ASSUME NEW l \in Loops, CycleEnds(l) PROVE LifeInv'
  <2>1. /\ loop \in [Loops -> {"unstarted", "waiting", "cycling", "returned", "died"}]
        /\ loop[l] = "cycling" /\ loop' = [loop EXCEPT ![l] = "waiting"]
        /\ UNCHANGED <<proc, server, shouldExit, stop, requests, client, mute, held, told>>
    BY <1>4 DEF CycleEnds, outside, Types
  <2>2. proc = "running"
    BY <2>1 DEF Types, Alive, AllOver
  <2> QED BY <2>1, <2>2 DEF Types, Alive, Told, ClosedLast
<1>5. CASE Bind
  BY <1>5 DEF Bind, outside, Types, Alive, Told, ClosedLast, AllOver
<1>6. CASE Health
  BY <1>6 DEF Health, GetClient, outside, Types, Alive, Told, ClosedLast, AllOver
<1>7. CASE HealthAnswers
  BY <1>7 DEF HealthAnswers, outside, Types, Alive, Told, ClosedLast, AllOver
<1>8. CASE Drain
  BY <1>8 DEF Drain, outside, Types, Alive, Told, ClosedLast, AllOver
<1>9. CASE ServeReturns
  BY <1>9 DEF ServeReturns, outside, Types, Alive, Told, ClosedLast, AllOver
<1>10. CASE GatherReturns
  BY <1>10 DEF GatherReturns, outside, Types, Alive, Told, ClosedLast, AllOver
<1>11. CASE CloseRedis
  BY <1>11 DEF CloseRedis, outside, Types, Alive, Told, ClosedLast, AllOver
<1>12. CASE StopContainer
  BY <1>12 DEF StopContainer, Hears, Types, Alive, Told, ClosedLast, AllOver
<1>13. CASE Die
  BY <1>13, ForgottenInv DEF Die, outside, Types
<1>14. CASE Restart
  BY <1>14 DEF Restart, tasks, Types, Alive, Told, ClosedLast, AllOver
<1>15. CASE StartContainer
  BY <1>15, ForgottenInv DEF StartContainer, Types
<1>16. ASSUME NEW s \in Servers, Mutes(s) PROVE LifeInv'
  BY <1>16 DEF Mutes, tasks, Types, Alive, Told, ClosedLast, AllOver
<1>17. CASE UNCHANGED vars
  BY <1>17 DEF vars, tasks, outside, Types, Alive, Told, ClosedLast, AllOver
<1> QED
  BY <1>1, <1>2, <1>3, <1>4, <1>5, <1>6, <1>7, <1>8, <1>9, <1>10, <1>11, <1>12, <1>13,
     <1>14, <1>15, <1>16, <1>17 DEF Next

LEMMA LifeInvAlways == Spec => []LifeInv
<1>1. Init => LifeInv
  <2> SUFFICES ASSUME Init PROVE LifeInv
    OBVIOUS
  <2>1. /\ proc = "booting" /\ server = "unstarted" /\ client = "none" /\ requests = 0
        /\ shouldExit = FALSE /\ \A l \in Loops : loop[l] = "unstarted"
    BY DEF Init, NewProcess
  <2>2. loop \in [Loops -> {"unstarted", "waiting", "cycling", "returned", "died"}]
    BY DEF Init, NewProcess
  <2>3. {shouldExit, stop, held} \subseteq BOOLEAN /\ told = "nowhere"
    BY DEF Init, NewProcess
  <2>4. Types
    BY <2>1, <2>2, <2>3, RequestsAssumption DEF Types
  <2> QED BY <2>1, <2>4 DEF LifeInv, Alive, Told, ClosedLast
<1> QED BY <1>1, LifeInvStep, PTL DEF Spec

(* redis_client.close runs when no loop and no request is left that could  *)
(* use the client or make it again.                                        *)
THEOREM RedisClosedLast == Spec => []ClosedLast
BY LifeInvAlways, PTL DEF LifeInv

(* main ends only by a signal that came while uvicorn listened.            *)
THEOREM OnlyAHeardSignalEnds == Spec => []EndsOnlyIfHeard
<1>1. LifeInv => EndsOnlyIfHeard
  BY DEF LifeInv, Alive, Told, AllOver, EndsOnlyIfHeard
<1> QED BY <1>1, LifeInvAlways, PTL
=============================================================================

----------------------------- MODULE Lifecycle -----------------------------
(***************************************************************************)
(* main (main.py) from its start to the close of Redis: the signal         *)
(* handlers, the tasks it gathers - three loops and the uvicorn server -   *)
(* the Redis client they share, and the container around it.  At least one *)
(* feed is configured; without one main returns at once.                   *)
(*                                                                         *)
(* A loop is reduced to the tasks PythSubscriber, ScoringLoop and HypeLoop *)
(* implement (Task): it is in a wait or in a cycle, whose Redis commands   *)
(* are one, and after the stop event it returns from its next wait.        *)
(* uvicorn 0.30 is external: its signal handlers are there from the first  *)
(* step of serve() to its last, and it leaves after its last request.      *)
(***************************************************************************)
EXTENDS Integers

CONSTANTS
  MaxRequests   \* bound: health requests at a time

ASSUME RequestsAssumption == MaxRequests \in Nat

VARIABLES
  proc,         \* the process
  loop,         \* the tasks of the loops
  server,       \* the task of server.serve()
  shouldExit,   \* server.should_exit
  stop,         \* stop_event
  requests,     \* health requests that wait for their PING
  client,       \* redis_client._client
  mute,         \* the servers that hold their connections and say nothing
  held,         \* the container was stopped and Docker does not restart it
  told          \* where the process was when it was told to stop

tasks == <<loop, server, shouldExit, stop, requests, client>>
outside == <<mute, held, told>>
vars == <<proc, tasks, outside>>

Loops == {"subscriber", "scoring", "hype"}
RedisLoops == {"scoring", "hype"}

(* Redis accepts commands, and Hermes subscriptions, without an answer.    *)
Servers == {"redis", "hermes"}

-----------------------------------------------------------------------------
NewProcess ==
  /\ loop = [l \in Loops |-> "unstarted"] /\ server = "unstarted"
  /\ shouldExit = FALSE /\ stop = FALSE /\ requests = 0 /\ client = "none"

Forgets ==
  /\ loop' = [l \in Loops |-> "unstarted"] /\ server' = "unstarted"
  /\ shouldExit' = FALSE /\ stop' = FALSE /\ requests' = 0 /\ client' = "none"

Init ==
  /\ proc = "booting" /\ NewProcess
  /\ mute = {} /\ held = FALSE /\ told = "nowhere"

(* redis_client.get_client: makes the client if there is none.             *)
GetClient == client' = "open"

(* main has installed its handlers and calls gather. *)
Start ==
  /\ proc = "booting"
  /\ proc' = "starting"
  /\ UNCHANGED <<tasks, outside>>

(* The first step of each task, in their order and without a pause.  The   *)
(* subscriber goes into its attempt, the scoring loop asks for the client  *)
(* and its first price, the HYPE loop makes its httpx client - which may   *)
(* raise and end that task, noticed by nobody - and uvicorn takes over the *)
(* signal handlers.                                                        *)
FirstSteps(httpxRaises) ==
  /\ proc = "starting"
  /\ proc' = "running"
  /\ loop' = [subscriber |-> "waiting", scoring |-> "cycling",
              hype |-> IF httpxRaises THEN "died" ELSE "cycling"]
  /\ server' = "binding" /\ GetClient
  /\ UNCHANGED <<shouldExit, stop, requests, outside>>

-----------------------------------------------------------------------------
(* Mutated form: a loop goes on without looking at stop_event. *)
LoopHeadForEver(l) ==
  /\ loop[l] = "waiting" /\ l \in RedisLoops
  /\ loop' = [loop EXCEPT ![l] = "cycling"] /\ GetClient
  /\ UNCHANGED <<proc, server, shouldExit, stop, requests, outside>>

(* The head of a loop: return, or a cycle, whose first get_client may have *)
(* to make the client again.  The subscriber's cycles use no Redis and are *)
(* not told apart from its waits: it comes to its head when a wait ends, a *)
(* connection closes or a message arrives.                                 *)
LoopHead(l) ==
  /\ loop[l] = "waiting"
  /\ IF stop THEN loop' = [loop EXCEPT ![l] = "returned"] /\ UNCHANGED client
     ELSE l \in RedisLoops /\ loop' = [loop EXCEPT ![l] = "cycling"] /\ GetClient
  /\ UNCHANGED <<proc, server, shouldExit, stop, requests, outside>>

(* The last command of the cycle is answered, or fails. *)
CycleEnds(l) ==
  /\ loop[l] = "cycling" /\ "redis" \notin mute
  /\ loop' = [loop EXCEPT ![l] = "waiting"]
  /\ UNCHANGED <<proc, server, shouldExit, stop, requests, client, outside>>

(* uvicorn's startup: with the exit asked for it ends there. *)
Bind ==
  /\ server = "binding"
  /\ server' = IF shouldExit THEN "returned" ELSE "serving"
  /\ UNCHANGED <<proc, loop, shouldExit, stop, requests, client, outside>>

(* GET /health: get_client, then a PING *)
Health ==
  /\ server = "serving" /\ requests < MaxRequests
  /\ requests' = requests + 1 /\ GetClient
  /\ UNCHANGED <<proc, loop, server, shouldExit, stop, outside>>

(* The PING is answered, or fails, and the request with it. *)
HealthAnswers ==
  /\ requests > 0 /\ "redis" \notin mute
  /\ requests' = requests - 1
  /\ UNCHANGED <<proc, loop, server, shouldExit, stop, client, outside>>

Drain ==
  /\ server = "serving" /\ shouldExit
  /\ server' = "draining"
  /\ UNCHANGED <<proc, loop, shouldExit, stop, requests, client, outside>>

ServeReturns ==
  /\ server = "draining" /\ requests = 0
  /\ server' = "returned"
  /\ UNCHANGED <<proc, loop, shouldExit, stop, requests, client, outside>>

-----------------------------------------------------------------------------
(* Mutated form: main awaits the server only. *)
ServerOver == server = "returned"

(* What gather waits for; an exception counts like a return. *)
AllOver == server = "returned" /\ \A l \in Loops : loop[l] \in {"returned", "died"}

GatherReturns ==
  /\ proc = "running" /\ AllOver
  /\ proc' = "closing" /\ shouldExit' = TRUE
  /\ UNCHANGED <<loop, server, stop, requests, client, outside>>

(* redis_client.close; main returns. *)
CloseRedis ==
  /\ proc = "closing"
  /\ client' = "none"
  /\ proc' = "exited"
  /\ UNCHANGED <<loop, server, shouldExit, stop, requests, outside>>

-----------------------------------------------------------------------------
(* Mutated form: uvicorn hears of signals before it has started. *)
HearsEarly == proc \in {"starting", "running"}

(* Whether uvicorn's handlers are installed *)
Hears == server \in {"binding", "serving", "draining"}

(* docker stop sends SIGTERM.  Before main has its handlers, the process,  *)
(* which has number 1, ignores it.                                         *)
StopContainer ==
  /\ proc \in {"booting", "starting", "running"} /\ ~held
  /\ held' = TRUE /\ told' = proc
  /\ stop' = (proc # "booting")
  /\ shouldExit' = (shouldExit \/ Hears)
  /\ UNCHANGED <<proc, loop, server, requests, client, mute>>

(* The process dies of the port being taken (SystemExit), of a crash or of *)
(* a lack of memory, or because docker stop has lost its patience.         *)
Die ==
  /\ proc \notin {"down", "exited"}
  /\ proc' = "down" /\ Forgets
  /\ UNCHANGED outside

(* restart: unless-stopped *)
Restart ==
  /\ proc = "down" /\ ~held
  /\ proc' = "booting" /\ told' = "nowhere"
  /\ UNCHANGED <<tasks, mute, held>>

(* docker start, or a new deployment *)
StartContainer ==
  /\ proc \in {"down", "exited"} /\ held
  /\ proc' = "booting" /\ held' = FALSE /\ told' = "nowhere"
  /\ Forgets
  /\ UNCHANGED mute

(* A server falls silent, or speaks again. *)
Mutes(s) ==
  /\ mute' = IF s \in mute THEN mute \ {s} ELSE mute \cup {s}
  /\ UNCHANGED <<proc, tasks, held, told>>

Next ==
  \/ Start
  \/ \E httpxRaises \in BOOLEAN : FirstSteps(httpxRaises)
  \/ \E l \in Loops : LoopHead(l) \/ CycleEnds(l)
  \/ Bind \/ Health \/ HealthAnswers \/ Drain \/ ServeReturns
  \/ GatherReturns \/ CloseRedis
  \/ StopContainer \/ Die \/ Restart \/ StartContainer
  \/ \E s \in Servers : Mutes(s)

Spec == Init /\ [][Next]_vars

(* What ends the wait the loop is in.  A loop's sleep and the subscriber's *)
(* backoff look at stop_event themselves, the receive loop only when Hermes *)
(* sends a message or the connection closes.                               *)
Wakes(l) == l = "subscriber" => "hermes" \notin mute

(* The event loop runs what is ready, and an awaited answer arrives.  No   *)
(* fairness of Die: a stop must not count on being killed.                 *)
Fairness ==
  /\ \A l \in Loops : WF_vars(Wakes(l) /\ LoopHead(l)) /\ WF_vars(CycleEnds(l))
  /\ WF_vars(Bind) /\ WF_vars(HealthAnswers) /\ WF_vars(Drain) /\ WF_vars(ServeReturns)
  /\ WF_vars(GatherReturns) /\ WF_vars(CloseRedis)

FairSpec == Spec /\ Fairness

-----------------------------------------------------------------------------
(* The client is closed last and once: whoever waits for Redis has the     *)
(* client open, nobody is left to use or to reopen it when close begins -  *)
(* a loop that died and a request that came with the signal included - and *)
(* it stays closed.                                                        *)
ClosedLast ==
  /\ requests > 0 \/ (\E l \in Loops : loop[l] = "cycling") => client = "open"
  /\ proc \in {"closing", "exited"} =>
       requests = 0 /\ \A l \in Loops : loop[l] \notin {"waiting", "cycling"}
  /\ proc = "exited" => client = "none"

(* A process ends by itself only if it was told to while uvicorn listened. *)
(* main sets should_exit after gather, which waits for the server: a       *)
(* signal between the installation of main's handlers and serve()'s first  *)
(* step stops the loops, and the server is left serving.                   *)
EndsOnlyIfHeard == proc \in {"closing", "exited"} => held /\ told = "running"

(* Told while uvicorn listens, the process ends by itself, whatever its    *)
(* loops and requests are doing and though a loop may have died.  It does  *)
(* not while Redis leaves a command without an answer, for want of a       *)
(* timeout, nor while Hermes keeps a live connection and sends nothing,    *)
(* since the receive loop then never looks at stop_event.                  *)
ShutdownCompletes ==
  <>[](mute = {}) => (told = "running" ~> proc \in {"exited", "down"})
=============================================================================

--------------------------- MODULE SaveMapClient ---------------------------
(***************************************************************************)
(* save_map_client_node.cpp: the command a user runs at the end of a SLAM  *)
(* session.  It waits up to five seconds for /map_saver/save_map, sends    *)
(* one request, waits for the answer without a limit, and tells the user   *)
(* and its exit status whether the map was saved.                          *)
(*                                                                         *)
(* The map saver and the user are external.  The saver takes one request   *)
(* at a time, may fail to write the map, and may stop with or without      *)
(* having answered.                                                        *)
(***************************************************************************)
EXTENDS Naturals, FiniteSets, Sequences, SequencesExt

CONSTANTS
  Clients,  \* the runs of the command
  MaxStops  \* bound: how often the map saver stops

ASSUME ClientsAssumption == IsFiniteSet(Clients)
ASSUME StopsAssumption == MaxStops \in Nat

VARIABLES
  client,  \* where each client is: "off", "looking" (wait_for_service),
           \* "waiting" (spin_until_future_complete), "exit0", "exit1"
  saver,   \* "down" or "up"
  queue,   \* requests the saver has not served
  answer,  \* answers on their way: "none", "saved", "not_saved"
  wrote,   \* history: the clients whose map the saver wrote
  stops

vars == <<client, saver, queue, answer, wrote, stops>>

-----------------------------------------------------------------------------
Init ==
  /\ client = [c \in Clients |-> "off"]
  /\ saver = "down"
  /\ queue = <<>>
  /\ answer = [c \in Clients |-> "none"]
  /\ wrote = {}
  /\ stops = 0

Goto(c, place) == client' = [client EXCEPT ![c] = place]

\* The user runs the command.
Run(c) ==
  /\ client[c] = "off"
  /\ Goto(c, "looking")
  /\ UNCHANGED <<saver, queue, answer, wrote, stops>>

\* wait_for_service() gives up after 5 s, or is interrupted: "Service not
\* available.", status 1.
GiveUp(c) ==
  /\ client[c] = "looking"
  /\ Goto(c, "exit1")
  /\ UNCHANGED <<saver, queue, answer, wrote, stops>>

\* Mutant: the request is sent again on every turn.
Send_Repeat(c) ==
  /\ client[c] \in {"looking", "waiting"} /\ Len(queue) < 5
  /\ Goto(c, "waiting")
  /\ \/ saver = "up" /\ queue' = Append(queue, c)
     \/ saver = "down" /\ stops > 0 /\ UNCHANGED queue
  /\ UNCHANGED <<saver, answer, wrote, stops>>

\* The service is there: async_send_request().  The saver may be gone by the
\* time the request leaves, and then nobody has it.
Send(c) ==
  /\ client[c] = "looking"
  /\ Goto(c, "waiting")
  /\ \/ saver = "up" /\ queue' = Append(queue, c)
     \/ saver = "down" /\ stops > 0 /\ UNCHANGED queue
  /\ UNCHANGED <<saver, answer, wrote, stops>>

\* Mutant: the client goes on waiting when the answer is a refusal.
Finish_SavedOnly(c) ==
  /\ client[c] = "waiting" /\ answer[c] = "saved"
  /\ Goto(c, "exit0")
  /\ UNCHANGED <<saver, queue, answer, wrote, stops>>

\* The future is complete, FutureReturnCode::SUCCESS: "Map saved
\* successfully.", status 0.  The result in the response is not looked at.
Finish(c) ==
  /\ client[c] = "waiting" /\ answer[c] # "none"
  /\ Goto(c, "exit0")
  /\ UNCHANGED <<saver, queue, answer, wrote, stops>>

\* Ctrl-C: FutureReturnCode::INTERRUPTED, "Failed to save map.", status 1.
\* The request stays with the saver.
Interrupt(c) ==
  /\ client[c] = "waiting"
  /\ Goto(c, "exit1")
  /\ UNCHANGED <<saver, queue, answer, wrote, stops>>

-----------------------------------------------------------------------------
(* The map saver (external).                                               *)

StartSaver ==
  /\ saver = "down"
  /\ saver' = "up"
  /\ UNCHANGED <<client, queue, answer, wrote, stops>>

\* The oldest request is served: the map is written, or it is not, and the
\* response says which.
Serve ==
  /\ saver = "up" /\ queue # <<>>
  /\ queue' = Tail(queue)
  /\ \/ /\ answer' = [answer EXCEPT ![Head(queue)] = "saved"]
        /\ wrote' = wrote \union {Head(queue)}
     \/ /\ answer' = [answer EXCEPT ![Head(queue)] = "not_saved"]
        /\ UNCHANGED wrote
  /\ UNCHANGED <<client, saver, stops>>

\* The saver stops, and the requests it had go with it.
StopSaver ==
  /\ saver = "up" /\ stops < MaxStops
  /\ stops' = stops + 1
  /\ saver' = "down"
  /\ queue' = <<>>
  /\ UNCHANGED <<client, answer, wrote>>

-----------------------------------------------------------------------------
Next ==
  \/ \E c \in Clients : Run(c) \/ GiveUp(c) \/ Send(c) \/ Finish(c) \/ Interrupt(c)
  \/ StartSaver \/ Serve \/ StopSaver

Spec == Init /\ [][Next]_vars

\* The client's steps happen, wait_for_service ends one way or the other, and
\* a saver that is up serves.  Nobody is obliged to interrupt.
FairSpec ==
  /\ Spec
  /\ \A c \in Clients : WF_vars(GiveUp(c) \/ Send(c)) /\ WF_vars(Finish(c))
  /\ WF_vars(Serve)

-----------------------------------------------------------------------------
(* Properties.                                                             *)

\* Types; an unserved request is in the queue once.
TypeOK ==
  /\ client \in [Clients -> {"off", "looking", "waiting", "exit0", "exit1"}]
  /\ saver \in {"down", "up"}
  /\ queue \in Seq(Clients) /\ Len(queue) <= Cardinality(Clients)
  /\ answer \in [Clients -> {"none", "saved", "not_saved"}]
  /\ wrote \subseteq Clients
  /\ stops \in 0..MaxStops

\* One run of the command is one request: the saver answers it at most once, so
\* no map is written again, over the first, for the same run (:24).
AnsweredOnce ==
  [][\A c \in Clients : answer[c] # "none" => answer'[c] = answer[c]]_vars

\* The saver stopped with the request, or was gone before it arrived.
Lost(c) == c \notin ToSet(queue) /\ answer[c] = "none"

\* A request that is lost stays lost: the client sends no second one, though a
\* saver comes back and serves the others, and only Ctrl-C ends it, with status
\* 1 (:24-32).
LostForGood ==
  [][\A c \in Clients :
       client[c] = "waiting" /\ Lost(c) =>
         client'[c] = "exit1" \/ (client'[c] = "waiting" /\ Lost(c)')]_vars

\* A client that waits ends, refused or not, unless its request was lost: the
\* wait of line 27 has no time limit, so that is the only other outcome.
\* Requests of others in front of it only delay it.
EndsUnlessLost ==
  \A c \in Clients : client[c] = "waiting" ~> (client[c] # "waiting" \/ Lost(c))

\* "Map saved successfully." (:28): a client that says so has its map.
SuccessMeansSaved ==
  \A c \in Clients : client[c] = "exit0" => c \in wrote
=============================================================================

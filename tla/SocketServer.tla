---------------------------- MODULE SocketServer ----------------------------
(***************************************************************************)
(* The socket of the daemon (usage-daemon/src/server.rs, usage-core/src/   *)
(* api.rs) and clients that send, wait, give up or say nothing (client.rs  *)
(* of usage-cli).  Of the storage only one account is kept, which requests *)
(* hide and delete: each checks that it exists before it acts.             *)
(***************************************************************************)
EXTENDS Integers, Sequences, FiniteSets

CONSTANTS
  Clients,
  MaxSlots,   \* MAX_CLIENT_CONNECTIONS is one of 1 .. MaxSlots
  MaxFrames   \* bound on the frames that each client sends

ASSUME ServerAssumption == IsFiniteSet(Clients) /\ MaxSlots \in Nat /\ MaxFrames \in [Clients -> Nat]

VARIABLES
  capacity,   \* the number of connections that are served at a time
  slots,      \* how many of them are free
  links,      \* connections as their clients see them
  inbox,      \* frames sent and not read yet, with their position
  sent,       \* how many frames were sent
  tasks,      \* handle_client
  replies,    \* answers received
  store       \* the account: shown, hidden or deleted

serverVars == <<capacity, slots, links, inbox, sent, tasks, replies, store>>

Requests == {"state", "health", "hide", "delete"}
Frames == Requests \union {"blank", "invalid", "huge"}

Idling == [at |-> "none"]
Reading == [at |-> "reading"]
Writing(frame, answer, close) == [at |-> "writing", frame |-> frame, answer |-> answer, close |-> close]

ServerInit ==
  /\ capacity \in 1 .. MaxSlots /\ slots = capacity
  /\ links = [c \in Clients |-> "none"]
  /\ inbox = [c \in Clients |-> <<>>] /\ replies = [c \in Clients |-> <<>>]
  /\ sent = [c \in Clients |-> 0]
  /\ tasks = [c \in Clients |-> Idling]
  /\ store = "shown"
-----------------------------------------------------------------------------
(* serve: a connection without a slot is closed at once.                   *)
Accept(c) ==
  /\ links[c] = "none"
  /\ IF slots > 0
     THEN /\ slots' = slots - 1
          /\ links' = [links EXCEPT ![c] = "open"]
          /\ tasks' = [tasks EXCEPT ![c] = Reading]
     ELSE /\ links' = [links EXCEPT ![c] = "closed"]
          /\ UNCHANGED <<slots, tasks>>
  /\ UNCHANGED <<capacity, inbox, sent, replies, store>>

SendFrame(c) ==
  /\ links[c] = "open" /\ sent[c] < MaxFrames[c]
  /\ sent' = [sent EXCEPT ![c] = @ + 1]
  /\ \E f \in Frames : inbox' = [inbox EXCEPT ![c] = Append(@, [kind |-> f, n |-> sent'[c]])]
  /\ UNCHANGED <<capacity, slots, links, tasks, replies, store>>

(* The client has what it wanted, or does not wait any longer.             *)
HangUp(c) ==
  /\ links[c] = "open"
  /\ links' = [links EXCEPT ![c] = "gone"]
  /\ UNCHANGED <<capacity, slots, inbox, sent, tasks, replies, store>>

(* Whatever ends the task, its permit is dropped with it.                  *)
EndTask(c) ==
  /\ tasks' = [tasks EXCEPT ![c] = Idling]
  /\ slots' = slots + 1
  /\ links' = [links EXCEPT ![c] = IF @ = "open" THEN "closed" ELSE @]

(* CLIENT_IDLE_TIMEOUT, or the end of the stream.                          *)
EndOfFrames(c) ==
  /\ tasks[c].at = "reading" /\ inbox[c] = <<>>
  /\ EndTask(c)
  /\ UNCHANGED <<capacity, inbox, sent, replies, store>>

(* decode_request: what cannot be read is answered too.                    *)
Decoded(f) ==
  IF f.kind = "invalid" THEN Writing(f, {"error"}, FALSE)
  ELSE [at |-> "handling", frame |-> f, step |-> "first", read |-> {}]

(* read_request_frame: the connection ends with a frame that is too long.  *)
ReadFrame(c) ==
  /\ tasks[c].at = "reading" /\ inbox[c] # <<>>
  /\ LET f == Head(inbox[c])
     IN  tasks' = [tasks EXCEPT ![c] =
           CASE f.kind = "blank" -> Reading [] f.kind = "huge" -> Writing(f, {"too_large"}, TRUE) [] OTHER -> Decoded(f)]
  /\ inbox' = [inbox EXCEPT ![c] = Tail(@)]
  /\ UNCHANGED <<capacity, slots, links, sent, replies, store>>

Handling(c, kinds, step) ==
  tasks[c].at = "handling" /\ tasks[c].frame.kind \in kinds /\ tasks[c].step = step

(* An answer, or one that is too long to be sent (encode_response).        *)
Answered(c, answer) ==
  \/ tasks' = [tasks EXCEPT ![c] = Writing(@.frame, answer, FALSE)]
  \/ tasks' = [tasks EXCEPT ![c] = Writing(@.frame, {"too_long"}, TRUE)]

Exists == store # "deleted"
Shown(what) == IF store = "shown" THEN {what} ELSE {}

(* state_response: one transaction reads it all (usage_dashboard).         *)
GetState(c) ==
  /\ Handling(c, {"state"}, "first")
  /\ Answered(c, Shown("account") \union Shown("health"))
  /\ UNCHANGED <<capacity, slots, links, inbox, sent, replies, store>>

(* provider_health_response: the health is read first, and what is hidden  *)
(* after that, which an account that is deleted meanwhile no longer is.    *)
GetHealth(c) ==
  /\ \/ /\ Handling(c, {"health"}, "first")
        /\ tasks' = [tasks EXCEPT ![c].step = "second", ![c].read = IF Exists THEN {"health"} ELSE {}]
     \/ /\ Handling(c, {"health"}, "second")
        /\ Answered(c, IF store = "hidden" THEN {} ELSE tasks[c].read)
  /\ UNCHANGED <<capacity, slots, links, inbox, sent, replies, store>>

(* require_account                                                         *)
RequireAccount(c) ==
  /\ Handling(c, {"hide", "delete"}, "first")
  /\ IF Exists THEN tasks' = [tasks EXCEPT ![c].step = "second"] ELSE Answered(c, {"error"})
  /\ UNCHANGED <<capacity, slots, links, inbox, sent, replies, store>>

Becomes(c) == IF tasks[c].frame.kind = "delete" THEN "deleted" ELSE "hidden"

(* Mutant: what was checked before is taken to be so.                      *)
ActUnchecked(c) ==
  /\ Handling(c, {"hide", "delete"}, "second")
  /\ store' = Becomes(c) /\ Answered(c, {"ok"})
  /\ UNCHANGED <<capacity, slots, links, inbox, sent, replies>>

(* update_account and delete_account of the storage, which find the row or *)
(* fail.                                                                   *)
ActOnAccount(c) ==
  /\ Handling(c, {"hide", "delete"}, "second")
  /\ IF Exists THEN store' = Becomes(c) /\ Answered(c, {"ok"})
               ELSE UNCHANGED store /\ Answered(c, {"error"})
  /\ UNCHANGED <<capacity, slots, links, inbox, sent, replies>>

Received(c) ==
  replies' = [replies EXCEPT ![c] =
    Append(@, [n |-> tasks[c].frame.n, deleted |-> tasks[c].frame.kind = "delete" /\ tasks[c].answer = {"ok"}])]

(* Mutant: a write waits for its reader as long as it takes.               *)
WriteForever(c) ==
  /\ tasks[c].at = "writing" /\ links[c] = "open" /\ sent[c] < MaxFrames[c]
  /\ Received(c)
  /\ tasks' = [tasks EXCEPT ![c] = Reading]
  /\ UNCHANGED <<capacity, slots, links, inbox, sent, store>>

(* write_response: read by the client, or an error, or after a while       *)
(* CLIENT_WRITE_TIMEOUT.                                                   *)
WriteReply(c) ==
  /\ tasks[c].at = "writing"
  /\ \/ /\ links[c] = "open"
        /\ Received(c)
        /\ IF tasks[c].close THEN EndTask(c)
           ELSE tasks' = [tasks EXCEPT ![c] = Reading] /\ UNCHANGED <<slots, links>>
     \/ EndTask(c) /\ UNCHANGED replies
  /\ UNCHANGED <<capacity, inbox, sent, store>>

ServerStep(c) ==
  \/ EndOfFrames(c) \/ ReadFrame(c)
  \/ GetState(c) \/ GetHealth(c) \/ RequireAccount(c) \/ ActOnAccount(c)
  \/ WriteReply(c)

ServerNext == \E c \in Clients : Accept(c) \/ SendFrame(c) \/ HangUp(c) \/ ServerStep(c)

(* Tasks run, timers fire, and handlers return.                            *)
ServerFairness == \A c \in Clients : WF_serverVars(ServerStep(c))
ServerSpec == ServerInit /\ [][ServerNext]_serverVars /\ ServerFairness
-----------------------------------------------------------------------------
ServerTypeOK ==
  /\ slots \in 0 .. capacity
  /\ links \in [Clients -> {"none", "open", "gone", "closed"}]
  /\ \A c \in Clients : sent[c] \in 0 .. MaxFrames[c]
  /\ \A c \in Clients : tasks[c].at \in {"none", "reading", "handling", "writing"}
  /\ store \in {"shown", "hidden", "deleted"}

(* No slot is lost or given out twice, however a connection ends.          *)
SlotsAccounted == slots + Cardinality({c \in Clients : tasks[c].at # "none"}) = capacity

(* Of requests that delete one account, one is told that it did.           *)
OneDeletion ==
  \A c, d \in Clients : \A i \in DOMAIN replies[c], j \in DOMAIN replies[d] :
    replies[c][i].deleted /\ replies[d][j].deleted => c = d /\ i = j

(* A state that is answered is that of one moment: its parts agree.        *)
StateOfOneMoment ==
  \A c \in Clients :
    tasks[c].at = "writing" /\ tasks[c].frame.kind = "state" => ("account" \in tasks[c].answer <=> "health" \in tasks[c].answer)

(* Answers come in the order of the requests, each once.                   *)
AnswersInOrder ==
  \A c \in Clients : \A i, j \in DOMAIN replies[c] : i < j => replies[c][i].n < replies[c][j].n

AnswersTrue == SlotsAccounted /\ OneDeletion /\ StateOfOneMoment /\ AnswersInOrder

(* A client that falls silent, or does not read, gives its slot back.      *)
ConnectionsEnd == \A c \in Clients : tasks[c].at # "none" ~> tasks[c].at = "none"
=============================================================================

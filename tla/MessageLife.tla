----------------------------- MODULE MessageLife -----------------------------
(***************************************************************************)
(* What a channel promises about each message, whatever its queues, maps,  *)
(* heaps and goroutines do: a message that was published waits, is         *)
(* deferred, is in flight to one client, or is in the hands of a command   *)
(* that this client gave; only that client can finish, requeue, defer or   *)
(* touch it; a touched message stays with it; and a message that is done   *)
(* never comes back.  Nothing is promised once the channel is closed.      *)
(***************************************************************************)
CONSTANTS Clients,      \* the consumers
          Msgs,         \* the messages
          Deferred,     \* those published with a delay
          Ephemeral     \* whether the channel may drop what it cannot keep

VARIABLES
    place,      \* where each message is in its life
    owner,      \* the client that has to answer for it, as a set
    open        \* the channel has not begun to exit

mvars == <<place, owner, open>>

MInit ==
    /\ place = [m \in Msgs |-> "new"]
    /\ owner = [m \in Msgs |-> {}]
    /\ open = TRUE

Moves(m, p, S) ==
    /\ open
    /\ place' = [place EXCEPT ![m] = p]
    /\ owner' = [owner EXCEPT ![m] = S]
    /\ UNCHANGED open

\* Waiting again, or dropped by an ephemeral channel that is full
Waits(m) == \/ Moves(m, "queued", {})
            \/ Ephemeral /\ Moves(m, "done", {})

Publish(m) ==
    /\ place[m] = "new"
    /\ IF m \in Deferred THEN Moves(m, "deferred", {}) ELSE Waits(m)

Deliver(m, c) == place[m] = "queued" /\ Moves(m, "flight", {c})

\* FIN, whose client is done with the message a little later
Finish(m, c) ==
    place[m] = "flight" /\ owner[m] = {c} /\ Moves(m, "done", {c})

Settle(m, c) ==
    place[m] = "done" /\ owner[m] = {c} /\ Moves(m, "done", {})

\* REQ and TOUCH take the message back before they pass it on.
Take(m, c) ==
    place[m] = "flight" /\ owner[m] = {c} /\ Moves(m, "command", {c})

Requeue(m, c) == place[m] = "command" /\ owner[m] = {c} /\ Waits(m)

Defer(m, c) ==
    place[m] = "command" /\ owner[m] = {c} /\ Moves(m, "deferred", {})

Touch(m, c) ==
    place[m] = "command" /\ owner[m] = {c} /\ Moves(m, "flight", {c})

TimeOut(m) == place[m] \in {"flight", "deferred"} /\ Moves(m, "queued", {})

\* A sampled client receives a message and throws it away, or an ephemeral
\* channel has no room for one that timed out.
Drop(m) == place[m] = "queued" /\ Moves(m, "done", {})

\* Empty, in as many steps as it likes; it does not reach what a command has.
Empty(S) ==
    /\ open
    /\ \A m \in S : place[m] \in {"queued", "deferred", "flight"}
    /\ place' = [m \in Msgs |-> IF m \in S THEN "done" ELSE place[m]]
    /\ owner' = [m \in Msgs |-> IF m \in S THEN {} ELSE owner[m]]
    /\ UNCHANGED open

Close == open /\ open' = FALSE /\ UNCHANGED <<place, owner>>

Closed == ~open /\ ~open'

MNext ==
    \/ \E m \in Msgs : Publish(m) \/ TimeOut(m) \/ Drop(m)
    \/ \E m \in Msgs, c \in Clients :
        \/ Deliver(m, c) \/ Finish(m, c) \/ Settle(m, c) \/ Take(m, c)
        \/ Requeue(m, c) \/ Defer(m, c) \/ Touch(m, c)
    \/ \E S \in SUBSET Msgs : Empty(S)
    \/ Close \/ Closed

MSpec == MInit /\ [][MNext]_mvars
=============================================================================

------------------------------ MODULE MsgFifo ------------------------------
(***************************************************************************)
(* What the scheduler's message queue promises to its users: a bounded     *)
(* first-in first-out queue from which one loop thread takes messages.  A  *)
(* push either appends the message or refuses it; a message that was       *)
(* accepted leaves only by being taken or by the destruction of the queue. *)
(* MsgQueue shows that utils_msg_queue.c, with its lock, its two           *)
(* semaphores and its timeouts, implements this specification.             *)
(***************************************************************************)
EXTENDS Naturals, Sequences

CONSTANTS Messages,   \* the messages producers send
          Cap         \* SCHED_MSG_QUEUE_MAX_CAP, the capacity

VARIABLES queue,      \* UtilsQueue: the accepted messages, oldest first
          alive       \* FALSE once UtilsMsgQueueDeinit has run

vars == <<queue, alive>>

Init == /\ queue = <<>>
        /\ alive = TRUE

Enqueue(m) == /\ Len(queue) < Cap
              /\ queue' = Append(queue, m)

Dequeue == /\ queue # <<>>
           /\ queue' = Tail(queue)

\* A push that finds room under the lock.
Accept(m) == /\ alive
             /\ Enqueue(m)
             /\ UNCHANGED alive

\* A pop that finds a message under the lock.
Take == /\ alive
        /\ Dequeue
        /\ UNCHANGED alive

\* The owner destroys the queue with whatever it still holds.
Destroy == /\ alive
           /\ alive' = FALSE
           /\ queue' = <<>>

Next == \/ \E m \in Messages : Accept(m)
        \/ Take
        \/ Destroy

Spec == Init /\ [][Next]_vars
=============================================================================

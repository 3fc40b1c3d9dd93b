----------------------------- MODULE GdbServer ------------------------------
(***************************************************************************)
(* What the simulator promises to gdb, without the connection, the         *)
(* scanner, acknowledgements, retransmissions, threads and lock: commands  *)
(* are served one at a time, each exactly once, on a core that nothing but *)
(* commands and whole exceptions changes, and gdb gets the answer to the   *)
(* command it asked.  While a cont runs the core is the program's alone.   *)
(*                                                                         *)
(* The promise ends (phase off) when gdb or the process goes away, after a *)
(* kill, and after a byte that belongs to no packet.                       *)
(*                                                                         *)
(* What a command computes is not said here: the handlers are parameters,  *)
(* which the implementation gives as those of GdbProtocol.                 *)
(***************************************************************************)
EXTENDS Integers

CONSTANTS Requests,     \* what gdb may ask
          Exceptions,   \* what the irq client may send
          Cores,        \* the cores main may start with
          Nothing       \* no request yet

CONSTANTS Commands,              \* the requests that have a handler
          Handle(_, _, _),       \* what the handler of a request may do
          Round(_),              \* the cores one round of cont may lead to
          SeesBreakpoint(_, _),  \* what cont may find at the next word
          StopReason(_),         \* what it answers when it stops there
          arm_exception(_, _),   \* the core after an exception
          EmptyText, NoReply     \* to other requests; while none is due

VARIABLES phase,  \* idle, asked, running, answered or off
          req,    \* the last request
          rep,    \* the answer that is due
          got,    \* the last answer gdb has accepted
          arm, exc

state == <<phase, req, rep, got, arm, exc>>

Init == /\ phase = "idle" /\ req = Nothing /\ rep = NoReply /\ got = NoReply
        /\ arm \in Cores /\ exc = 0

Ask == /\ phase = "idle"
       /\ phase' = "asked" /\ req' \in Requests
       /\ UNCHANGED <<rep, got, arm, exc>>

Serve == /\ phase = "asked" /\ req.cmd \in Commands \ {"c", "k"}
         /\ \E o \in Handle(arm, exc, req) :
              /\ ~o.arm.fault /\ ~o.aborted
              /\ arm' = o.arm /\ exc' = o.exc /\ rep' = o.reply
         /\ phase' = "answered"
         /\ UNCHANGED <<req, got>>

Decline == /\ phase = "asked" /\ req.cmd \notin Commands
           /\ rep' = EmptyText /\ phase' = "answered"
           /\ UNCHANGED <<req, got, arm, exc>>

Start == /\ phase = "asked" /\ req.cmd = "c"
         /\ phase' = "running"
         /\ UNCHANGED <<req, rep, got, arm, exc>>

Run == /\ phase = "running"
       /\ arm' \in Round(arm) /\ exc' = 0
       /\ UNCHANGED <<phase, req, rep, got>>

\* A running program stops at a breakpoint, or where nothing can be fetched.
Stop == /\ phase = "running"
        /\ TRUE \in SeesBreakpoint(arm, TRUE)
        /\ rep' = StopReason(exc) /\ phase' = "answered"
        /\ UNCHANGED <<req, got, arm, exc>>

Deliver == /\ phase = "answered"
           /\ phase' = "idle" /\ got' = rep /\ rep' = NoReply
           /\ UNCHANGED <<req, arm, exc>>

Interrupt == /\ phase # "running"
             /\ \E b \in Exceptions : arm' = arm_exception(arm, b)
             /\ UNCHANGED <<phase, req, rep, got, exc>>

\* From then on nothing is promised.
End == phase' = "off"

Next == \/ Ask \/ Serve \/ Decline \/ Start \/ Run \/ Stop \/ Deliver
        \/ Interrupt \/ End

Spec == Init /\ [][Next]_state
=============================================================================

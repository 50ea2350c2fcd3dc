---------------------------- MODULE MCDeviceCommand ----------------------------
(***************************************************************************)
(* Instances of DeviceCommand.  A history variable remembers which of the  *)
(* Disturbances happened, so that a promise which only some of them break  *)
(* is checked while all the others happen.                                 *)
(***************************************************************************)
EXTENDS DeviceCommand, TLC

VARIABLES happened,   \* the disturbances so far
          started     \* started[c]: how often the desktop began to execute c

mcvars == <<vars, happened, started>>

Happens(d) ==
    CASE d = "slow"   -> \E p \in Phone, c \in Command : Busy(p) /\ TimerFires(p, c)
      [] d = "drop"   -> (\E k \in Sock : DesktopDrops(k)) \/ (\E p \in Phone : PhoneDrops(p))
      [] d = "quit"   -> DesktopQuits \/ DesktopDisconnects
      [] d = "twice"  -> current # NoSock /\ \E k \in Sock : DesktopConnects(k)
      [] d = "fault"  -> \E r \in Report : CompleteFails(r)
      [] d = "cancel" -> \E c \in Command : HandleCommandCancel(c)

Starts(c) == \E k \in Sock : StartCommand(k, c)

MCInit == Init /\ happened = {} /\ started = [c \in Command |-> 0]

MCNext ==
    /\ Next
    /\ happened' = happened \cup {d \in Disturbances : Happens(d)}
    /\ started' = [c \in Command |-> IF Starts(c) THEN started[c] + 1 ELSE started[c]]

MCSpec == MCInit /\ [][MCNext]_mcvars

First(S) == CHOOSE x \in S : TRUE

(* What TLC explores: names are used in order, and a second command is issued *)
(* only where one kind of disturbance at most happens beside slow answers,    *)
(* and that is not a second socket.  With one command any three kinds may     *)
(* happen beside slow answers.  No fair action is bounded.                    *)
BoundedNext ==
    /\ MCNext
    /\ opened' # {} => First(Sock) \in opened'
    /\ issued' # {} => First(Command) \in issued'
    /\ Cardinality(happened' \ {"slow"}) <= (IF Cardinality(issued') > 1 THEN 1 ELSE 3)
    /\ Cardinality(issued') > 1 => "twice" \notin happened'

BoundedSpec == MCInit /\ [][BoundedNext]_mcvars /\ Fairness

-----------------------------------------------------------------------------
(* A command is executed once at most.  connect() breaks it when it leaves a  *)
(* second socket of the desktop in its room.                                  *)
ExecutedOnce == \A c \in Command : started[c] <= 1

(* As long as no login is answered while the desktop has a socket, a command  *)
(* is executed once at most, however sockets drop, the application restarts   *)
(* and its user logs out and in again.                                        *)
ExecutedOnceInTurn == "twice" \notin happened => ExecutedOnce

(* "Results correspond to commands one to one": as long as no command of his  *)
(* timed out and none was executed twice, a phone that is the only one shows  *)
(* the result of the command it sent last, whatever drops, quits and cancels. *)
ShownIsOwnInTime == happened \cap {"slow", "twice"} = {} => ShownIsOwn

(* A command that was stored gets its final status, unless the desktop went   *)
(* away or the result could not be stored, however slowly everybody answers   *)
(* and however many sockets the desktop has.                                  *)
EveryCommandEnds ==
    \A c \in Command :
        row[c] = "PENDING" ~> row[c] # "PENDING" \/ happened \cap {"drop", "quit", "fault"} # {}
=============================================================================

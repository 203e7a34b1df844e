------------------------------ MODULE ActionFIFO ------------------------------
(***************************************************************************)
(* What readme.txt promises of actions (src/src/init/readme.txt:27-36): an  *)
(* action whose trigger occurs goes to the tail of the queue unless it is   *)
(* on it, actions are taken from the queue in sequence, and the commands    *)
(* of an action are executed in sequence, one for each turn of the loop.    *)
(***************************************************************************)
EXTENDS Naturals, Sequences

CONSTANTS
  Actions,      (* the actions                                          *)
  NoAction,     (* no action is being executed                          *)
  NrCommands    (* the number of commands of each action                *)

VARIABLES
  queue,        (* the actions to be executed, oldest first             *)
  cur_action,   (* the action being executed                            *)
  cur_command   (* the command of it executed last, 0 if there is none  *)

fifoVars == <<queue, cur_action, cur_command>>

Queued == {queue[i] : i \in DOMAIN queue}

FifoInit == queue = <<>> /\ cur_action = NoAction /\ cur_command = 0

Finished == IF cur_action = NoAction \/ cur_command = 0
            THEN TRUE
            ELSE cur_command = NrCommands[cur_action]

Enqueue(a) ==
  /\ a \notin Queued
  /\ queue' = Append(queue, a)
  /\ UNCHANGED <<cur_action, cur_command>>

TakeAction ==
  /\ Finished
  /\ queue # <<>>
  /\ queue' = Tail(queue)
  /\ cur_action' = Head(queue)
  /\ cur_command' = IF NrCommands[cur_action'] = 0 THEN 0 ELSE 1

NextCommand ==
  /\ ~Finished
  /\ cur_command' = cur_command + 1
  /\ UNCHANGED <<queue, cur_action>>

BecomeIdle ==
  /\ Finished
  /\ queue = <<>>
  /\ cur_action' = NoAction
  /\ cur_command' = 0
  /\ UNCHANGED queue

FifoNext == (\E a \in Actions : Enqueue(a)) \/ TakeAction \/ NextCommand \/ BecomeIdle

FifoSpec == FifoInit /\ [][FifoNext]_fifoVars
===============================================================================

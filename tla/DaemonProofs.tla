---------------------------- MODULE DaemonProofs ----------------------------
(***************************************************************************)
(* The safety properties of the daemon's event loop, for every set of      *)
(* clients and service ids and every number of connection attempts, and    *)
(* that the loop implements CommandServer.                                 *)
(*                                                                         *)
(* The invariant IInv of module Daemon is inductive: TLC checks it on the  *)
(* small instances, the lemmas below prove it action by action.            *)
(*                                                                         *)
(* At the end the life of the daemon's files, module DaemonLifecycle.  Its *)
(* names differ from those of Daemon, so that both can be extended.        *)
(***************************************************************************)
EXTENDS Daemon, DaemonLifecycle, TLAPS

(* The state's names and the pieces the handlers are put together from are    *)
(* expanded everywhere; the actions and the invariant only where cited.       *)
USE AttemptsAssumption, NoneAssumption, CommandsAssumption
    DEF vars, loopVars, peerVars, eventVars, clientVars, Goto, Reconnect, Respond,
    NoResponse, Hangup, KeepClient, Finish, Fail, Classes, DroppedRecv, RunPc,
    ReconnectFails, TargetMode, MoreAttempts, InstalledConnType,
    login_union_for_conn_type, ServiceIdFor, is_keepalive_expired,
    conn_type_for_command, Serving, Running, Pcs, Streams, Modes, Healths,
    Terminals, Kinds, Dispatched, LoopTypeOK, PeerTypeOK, EventTypeOK, ClientTypeOK,
    AnsweredExactlyOnce, ServiceIdOnlyInTerminalMode, SessionAfter, Succeeds

(* A fresh daemon, just past LockFile::write, satisfies the invariant. *)
LEMMA InitIInv == Init => IInv
  <1> SUFFICES ASSUME Init PROVE IInv
    BY Zenon
  <1>1. LoopTypeOK /\ PeerTypeOK /\ ClientTypeOK
    BY DEF Init
  <1>2. EventTypeOK
    BY Zenon DEF Init
  <1>3. ServesOne /\ KindFits
    BY Zenon DEF Init, ServesOne, KindFits
  <1>4. StreamFits /\ ConnectedWhileServing
    BY Zenon DEF Init, StreamFits, ConnectedWhileServing
  <1>5. RepliesFit /\ SentFits
    BY DEF Init, RepliesFit, SentFits
  <1> QED BY Zenon, <1>1, <1>2, <1>3, <1>4, <1>5 DEF IInv, TypeOK

(* Clients, the network, signals and the heartbeat task touch nothing the     *)
(* invariant relates, except to add a client without history.                 *)
LEMMA EnvironmentKeepsIInv == ASSUME IInv, Environment PROVE IInv'
  <1>1. ASSUME NEW c \in Clients, ClientConnects(c) PROVE IInv'
    BY <1>1 DEF IInv, ClientConnects, TypeOK, ServesOne, KindFits, StreamFits,
       RepliesFit, SentFits, ConnectedWhileServing
  <1>2. ASSUME NEW c \in Clients, ClientLeaves(c) PROVE IInv'
    BY <1>2 DEF IInv, ClientLeaves, TypeOK, ServesOne, KindFits, StreamFits,
       RepliesFit, SentFits, ConnectedWhileServing
  <1>3. ASSUME NEW h \in {"silent", "broken"}, StreamFails(h) PROVE IInv'
    BY <1>3 DEF IInv, StreamFails, TypeOK, ServesOne, KindFits, StreamFits,
       RepliesFit, SentFits, ConnectedWhileServing
  <1>4. CASE PeerFallsQuiet
    BY <1>4 DEF IInv, PeerFallsQuiet, TypeOK, ServesOne, KindFits, StreamFits,
       RepliesFit, SentFits, ConnectedWhileServing
  <1>5. CASE SignalArrives
    BY <1>5 DEF IInv, SignalArrives, TypeOK, ServesOne, KindFits, StreamFits,
       RepliesFit, SentFits, ConnectedWhileServing
  <1>6. CASE HeartbeatTaskTicks
    BY <1>6 DEF IInv, HeartbeatTaskTicks, TypeOK, ServesOne, KindFits, StreamFits,
       RepliesFit, SentFits, ConnectedWhileServing
  <1> QED BY Zenon, <1>1, <1>2, <1>3, <1>4, <1>5, <1>6 DEF Environment

(* The branches of the select!.                                               *)
LEMMA SelectKeepsIInv == ASSUME IInv, Select PROVE IInv'
  <1>1. CASE PeerMessage
    <2>1. LoopTypeOK'
      BY Zenon, <1>1 DEF IInv, PeerMessage, TypeOK, ServesOne, KindFits
    <2>2. PeerTypeOK'
      BY Zenon, <1>1 DEF IInv, PeerMessage, TypeOK, ServesOne, KindFits
    <2>3. EventTypeOK'
      BY Zenon, <1>1 DEF IInv, PeerMessage, TypeOK, ServesOne, KindFits
    <2>4. ClientTypeOK'
      BY Zenon, <1>1 DEF IInv, PeerMessage, TypeOK, ServesOne, KindFits
    <2>5. (ServesOne /\ KindFits)'
      BY Zenon, <1>1 DEF IInv, PeerMessage, TypeOK, ServesOne, KindFits
    <2>6. StreamFits'
      BY Zenon, <1>1 DEF IInv, PeerMessage, TypeOK, ServesOne, KindFits, StreamFits
    <2>7. (RepliesFit /\ SentFits /\ ConnectedWhileServing)'
      BY Zenon, <1>1 DEF IInv, PeerMessage, TypeOK, ServesOne, KindFits, RepliesFit,
           SentFits, ConnectedWhileServing
    <2> QED BY Zenon, <2>1, <2>2, <2>3, <2>4, <2>5, <2>6, <2>7 DEF IInv, TypeOK
  <1>2. CASE PeerCloseReason
    BY <1>2 DEF IInv, PeerCloseReason, TypeOK, ServesOne, KindFits, StreamFits,
       RepliesFit, SentFits, ConnectedWhileServing
  <1>3. CASE PeerError
    <2>1. TypeOK'
      BY <1>3 DEF IInv, PeerError, TypeOK, ServesOne, KindFits
    <2>2. (ServesOne /\ KindFits)'
      BY Zenon, <1>3 DEF IInv, PeerError, TypeOK, ServesOne, KindFits
    <2>3. StreamFits'
      BY Zenon, <1>3 DEF IInv, PeerError, TypeOK, ServesOne, KindFits, StreamFits
    <2>4. (RepliesFit /\ SentFits /\ ConnectedWhileServing)'
      BY Zenon, <1>3 DEF IInv, PeerError, TypeOK, ServesOne, KindFits, RepliesFit,
           SentFits, ConnectedWhileServing
    <2> QED BY Zenon, <2>1, <2>2, <2>3, <2>4 DEF IInv
  <1>4. CASE HeartbeatTick
    <2>1. LoopTypeOK'
      BY <1>4 DEF IInv, HeartbeatTick, TypeOK, ServesOne, KindFits
    <2>2. PeerTypeOK'
      BY <1>4 DEF IInv, HeartbeatTick, TypeOK, ServesOne, KindFits
    <2>3. EventTypeOK'
      BY Zenon, <1>4 DEF IInv, HeartbeatTick, TypeOK, ServesOne, KindFits
    <2>4. ClientTypeOK'
      BY Zenon, <1>4 DEF IInv, HeartbeatTick, TypeOK, ServesOne, KindFits
    <2>5. (ServesOne /\ KindFits)'
      BY ZenonT(60), <1>4 DEF IInv, HeartbeatTick, TypeOK, ServesOne, KindFits
    <2>6. StreamFits'
      BY ZenonT(60), <1>4 DEF IInv, HeartbeatTick, TypeOK, ServesOne, KindFits, StreamFits
    <2>7. (RepliesFit /\ SentFits /\ ConnectedWhileServing)'
      BY ZenonT(60), <1>4 DEF IInv, HeartbeatTick, TypeOK, ServesOne, KindFits, RepliesFit,
           SentFits, ConnectedWhileServing
    <2> QED BY Zenon, <2>1, <2>2, <2>3, <2>4, <2>5, <2>6, <2>7 DEF IInv, TypeOK
  <1>5. ASSUME NEW c \in Clients, Accept(c) PROVE IInv'
    BY <1>5 DEF IInv, Accept, TypeOK, ServesOne, KindFits, StreamFits, RepliesFit,
       SentFits, ConnectedWhileServing
  <1>6. CASE IdleTimeout
    BY <1>6 DEF IInv, IdleTimeout, TypeOK, ServesOne, KindFits, StreamFits,
       RepliesFit, SentFits, ConnectedWhileServing
  <1>7. CASE HandleSignal
    BY Zenon, <1>7 DEF IInv, HandleSignal, TypeOK, ServesOne, KindFits, StreamFits,
       RepliesFit, SentFits, ConnectedWhileServing
  <1> QED BY Zenon, <1>1, <1>2, <1>3, <1>4, <1>5, <1>6, <1>7 DEF Select

(* The accepted connection's line: refused, run, or a mode switch.            *)
LEMMA ReadLineKeepsIInv == ASSUME IInv, ReadLine PROVE IInv'
  <1>1. CASE ReadLineFails
    <2>1. TypeOK'
      BY <1>1 DEF IInv, ReadLineFails, TypeOK, ServesOne, KindFits
    <2>2. (ServesOne /\ KindFits)'
      BY <1>1 DEF IInv, ReadLineFails, TypeOK, ServesOne, KindFits
    <2>3. StreamFits'
      BY Zenon, <1>1 DEF IInv, ReadLineFails, TypeOK, ServesOne, KindFits, StreamFits
    <2>4. (RepliesFit /\ SentFits /\ ConnectedWhileServing)'
      BY ZenonT(60), <1>1 DEF IInv, ReadLineFails, TypeOK, ServesOne, KindFits, RepliesFit,
           SentFits, ConnectedWhileServing
    <2> QED BY Zenon, <2>1, <2>2, <2>3, <2>4 DEF IInv
  <1>2. ASSUME NEW k \in Commands \cup {"Invalid"}, ReadCommand(k) PROVE IInv'
    <2>1. TypeOK'
      BY <1>2 DEF IInv, ReadCommand, TypeOK, ServesOne, KindFits
    <2>2. (ServesOne /\ KindFits)'
      BY <1>2 DEF IInv, ReadCommand, TypeOK, ServesOne, KindFits
    <2>3. StreamFits'
      BY <1>2 DEF IInv, ReadCommand, TypeOK, ServesOne, KindFits, StreamFits
    <2>4. (RepliesFit /\ SentFits /\ ConnectedWhileServing)'
      BY <1>2 DEF IInv, ReadCommand, TypeOK, ServesOne, KindFits, RepliesFit,
           SentFits, ConnectedWhileServing
    <2> QED BY Zenon, <2>1, <2>2, <2>3, <2>4 DEF IInv
  <1> QED BY Zenon, <1>1, <1>2 DEF ReadLine

(* reconnect_encrypted_stream and what its call sites do with the result.     *)
LEMMA ReconnectKeepsIInv == ASSUME IInv, ReconnectStep PROVE IInv'
  <1>1. CASE AttemptFails
    <2>1. TypeOK'
      BY <1>1 DEF IInv, AttemptFails, TypeOK, ServesOne, KindFits
    <2>2. (ServesOne /\ KindFits)'
      BY <1>1 DEF IInv, AttemptFails, TypeOK, ServesOne, KindFits
    <2>3. StreamFits'
      BY Zenon, <1>1 DEF IInv, AttemptFails, TypeOK, ServesOne, KindFits, StreamFits
    <2>4. (RepliesFit /\ SentFits /\ ConnectedWhileServing)'
      BY <1>1 DEF IInv, AttemptFails, TypeOK, ServesOne, KindFits, RepliesFit,
           SentFits, ConnectedWhileServing
    <2> QED BY Zenon, <2>1, <2>2, <2>3, <2>4 DEF IInv
  <1>2. CASE InitializeFails
    <2>1. TypeOK'
      BY <1>2 DEF IInv, InitializeFails, TypeOK, ServesOne, KindFits
    <2>2. (ServesOne /\ KindFits)'
      BY <1>2 DEF IInv, InitializeFails, TypeOK, ServesOne, KindFits
    <2>3. StreamFits'
      BY Zenon, <1>2 DEF IInv, InitializeFails, TypeOK, ServesOne, KindFits, StreamFits
    <2>4. (RepliesFit /\ SentFits /\ ConnectedWhileServing)'
      BY <1>2 DEF IInv, InitializeFails, TypeOK, ServesOne, KindFits, RepliesFit,
           SentFits, ConnectedWhileServing
    <2> QED BY Zenon, <2>1, <2>2, <2>3, <2>4 DEF IInv
  <1>3. CASE AttemptSucceeds
    <2>1. LoopTypeOK'
      BY <1>3 DEF IInv, AttemptSucceeds, TypeOK, ServesOne, KindFits
    <2>2. PeerTypeOK'
      BY Zenon, <1>3 DEF IInv, AttemptSucceeds, TypeOK, ServesOne, KindFits
    <2>3. EventTypeOK'
      BY Zenon, <1>3 DEF IInv, AttemptSucceeds, TypeOK, ServesOne, KindFits
    <2>4. ClientTypeOK'
      BY Zenon, <1>3 DEF IInv, AttemptSucceeds, TypeOK, ServesOne, KindFits
    <2>5. (ServesOne /\ KindFits)'
      BY Zenon, <1>3 DEF IInv, AttemptSucceeds, TypeOK, ServesOne, KindFits
    <2>6. StreamFits'
      BY Zenon, <1>3 DEF IInv, AttemptSucceeds, TypeOK, ServesOne, KindFits, StreamFits
    <2>7. (RepliesFit /\ SentFits /\ ConnectedWhileServing)'
      BY <1>3 DEF IInv, AttemptSucceeds, TypeOK, ServesOne, KindFits, RepliesFit,
           SentFits, ConnectedWhileServing
    <2> QED BY Zenon, <2>1, <2>2, <2>3, <2>4, <2>5, <2>6, <2>7 DEF IInv, TypeOK
  <1> QED BY Zenon, <1>1, <1>2, <1>3 DEF ReconnectStep

(* The commands, each way they can end.                                       *)
LEMMA RunCommandKeepsIInv == ASSUME IInv, RunCommand PROVE IInv'
  <1>1. ASSUME NEW s \in ServiceIds, OpenTerminal(s) PROVE IInv'
    <2>1. LoopTypeOK'
      BY <1>1 DEF IInv, OpenTerminal, TypeOK, ServesOne, KindFits
    <2>2. PeerTypeOK'
      BY Zenon, <1>1 DEF IInv, OpenTerminal, TypeOK, ServesOne, KindFits
    <2>3. EventTypeOK'
      BY Zenon, <1>1 DEF IInv, OpenTerminal, TypeOK, ServesOne, KindFits
    <2>4. ClientTypeOK'
      BY <1>1 DEF IInv, OpenTerminal, TypeOK, ServesOne, KindFits
    <2>5. (ServesOne /\ KindFits)'
      BY <1>1 DEF IInv, OpenTerminal, TypeOK, ServesOne, KindFits
    <2>6. StreamFits'
      BY Zenon, <1>1 DEF IInv, OpenTerminal, TypeOK, ServesOne, KindFits, StreamFits
    <2>7. (RepliesFit /\ SentFits /\ ConnectedWhileServing)'
      BY <1>1 DEF IInv, OpenTerminal, TypeOK, ServesOne, KindFits, RepliesFit,
           SentFits, ConnectedWhileServing
    <2> QED BY Zenon, <2>1, <2>2, <2>3, <2>4, <2>5, <2>6, <2>7 DEF IInv, TypeOK
  <1>2. CASE SendExec
    BY <1>2 DEF IInv, SendExec, TypeOK, ServesOne, KindFits, StreamFits, RepliesFit,
       SentFits, ConnectedWhileServing
  <1>3. CASE ExecEnds
    <2>1. TypeOK'
      BY <1>3 DEF IInv, ExecEnds, TypeOK, ServesOne, KindFits
    <2>2. (ServesOne /\ KindFits)'
      BY <1>3 DEF IInv, ExecEnds, TypeOK, ServesOne, KindFits
    <2>3. StreamFits'
      BY Zenon, <1>3 DEF IInv, ExecEnds, TypeOK, ServesOne, KindFits, StreamFits
    <2>4. (RepliesFit /\ SentFits /\ ConnectedWhileServing)'
      BY <1>3 DEF IInv, ExecEnds, TypeOK, ServesOne, KindFits, RepliesFit, SentFits,
           ConnectedWhileServing
    <2> QED BY Zenon, <2>1, <2>2, <2>3, <2>4 DEF IInv
  <1>4. CASE ChunkWriteFails
    <2>1. TypeOK'
      BY <1>4 DEF IInv, ChunkWriteFails, TypeOK, ServesOne, KindFits
    <2>2. (ServesOne /\ KindFits)'
      BY <1>4 DEF IInv, ChunkWriteFails, TypeOK, ServesOne, KindFits
    <2>3. StreamFits'
      BY Zenon, <1>4 DEF IInv, ChunkWriteFails, TypeOK, ServesOne, KindFits, StreamFits
    <2>4. (RepliesFit /\ SentFits /\ ConnectedWhileServing)'
      BY <1>4 DEF IInv, ChunkWriteFails, TypeOK, ServesOne, KindFits, RepliesFit,
           SentFits, ConnectedWhileServing
    <2> QED BY Zenon, <2>1, <2>2, <2>3, <2>4 DEF IInv
  <1>5. CASE ShellEnds
    <2>1. TypeOK'
      BY <1>5 DEF IInv, ShellEnds, TypeOK, ServesOne, KindFits
    <2>2. (ServesOne /\ KindFits)'
      BY <1>5 DEF IInv, ShellEnds, TypeOK, ServesOne, KindFits
    <2>3. StreamFits'
      BY <1>5 DEF IInv, ShellEnds, TypeOK, ServesOne, KindFits, StreamFits
    <2>4. (RepliesFit /\ SentFits /\ ConnectedWhileServing)'
      BY <1>5 DEF IInv, ShellEnds, TypeOK, ServesOne, KindFits, RepliesFit,
           SentFits, ConnectedWhileServing
    <2> QED BY Zenon, <2>1, <2>2, <2>3, <2>4 DEF IInv
  <1>6. CASE PeerCommandSucceeds
    <2>1. LoopTypeOK'
      BY Zenon, <1>6 DEF IInv, PeerCommandSucceeds, TypeOK, ServesOne, KindFits
    <2>2. PeerTypeOK'
      BY Zenon, <1>6 DEF IInv, PeerCommandSucceeds, TypeOK, ServesOne, KindFits
    <2>3. EventTypeOK'
      BY Zenon, <1>6 DEF IInv, PeerCommandSucceeds, TypeOK, ServesOne, KindFits
    <2>4. ClientTypeOK'
      BY <1>6 DEF IInv, PeerCommandSucceeds, TypeOK, ServesOne, KindFits
    <2>5. (ServesOne /\ KindFits)'
      BY <1>6 DEF IInv, PeerCommandSucceeds, TypeOK, ServesOne, KindFits
    <2>6. StreamFits'
      BY Zenon, <1>6 DEF IInv, PeerCommandSucceeds, TypeOK, ServesOne, KindFits, StreamFits
    <2>7. (RepliesFit /\ SentFits /\ ConnectedWhileServing)'
      BY <1>6 DEF IInv, PeerCommandSucceeds, TypeOK, ServesOne, KindFits,
           RepliesFit, SentFits, ConnectedWhileServing
    <2> QED BY Zenon, <2>1, <2>2, <2>3, <2>4, <2>5, <2>6, <2>7 DEF IInv, TypeOK
  <1>7. CASE Dispatch
    <2>1. TypeOK'
      BY <1>7 DEF IInv, Dispatch, TypeOK, ServesOne, KindFits
    <2>2. (ServesOne /\ KindFits)'
      BY <1>7 DEF IInv, Dispatch, TypeOK, ServesOne, KindFits
    <2>3. StreamFits'
      BY Zenon, <1>7 DEF IInv, Dispatch, TypeOK, ServesOne, KindFits, StreamFits
    <2>4. (RepliesFit /\ SentFits /\ ConnectedWhileServing)'
      BY <1>7 DEF IInv, Dispatch, TypeOK, ServesOne, KindFits, RepliesFit, SentFits,
           ConnectedWhileServing
    <2> QED BY Zenon, <2>1, <2>2, <2>3, <2>4 DEF IInv
  <1>8. ASSUME NEW class \in Classes, OpenFails(class) PROVE IInv'
    <2>1. TypeOK'
      BY <1>8 DEF IInv, OpenFails, TypeOK, ServesOne, KindFits
    <2>2. (ServesOne /\ KindFits)'
      BY <1>8 DEF IInv, OpenFails, TypeOK, ServesOne, KindFits
    <2>3. StreamFits'
      BY <1>8 DEF IInv, OpenFails, TypeOK, ServesOne, KindFits, StreamFits
    <2>4. (RepliesFit /\ SentFits /\ ConnectedWhileServing)'
      BY <1>8 DEF IInv, OpenFails, TypeOK, ServesOne, KindFits, RepliesFit,
           SentFits, ConnectedWhileServing
    <2> QED BY Zenon, <2>1, <2>2, <2>3, <2>4 DEF IInv
  <1>9. ASSUME NEW class \in Classes, ExecTerminalError(class) PROVE IInv'
    <2>1. TypeOK'
      BY <1>9 DEF IInv, ExecTerminalError, TypeOK, ServesOne, KindFits
    <2>2. (ServesOne /\ KindFits)'
      BY <1>9 DEF IInv, ExecTerminalError, TypeOK, ServesOne, KindFits
    <2>3. StreamFits'
      BY Zenon, <1>9 DEF IInv, ExecTerminalError, TypeOK, ServesOne, KindFits, StreamFits
    <2>4. (RepliesFit /\ SentFits /\ ConnectedWhileServing)'
      BY <1>9 DEF IInv, ExecTerminalError, TypeOK, ServesOne, KindFits, RepliesFit,
           SentFits, ConnectedWhileServing
    <2> QED BY Zenon, <2>1, <2>2, <2>3, <2>4 DEF IInv
  <1>10. ASSUME NEW class \in Classes, DrainFails(class) PROVE IInv'
    <2>1. TypeOK'
      BY <1>10 DEF IInv, DrainFails, TypeOK, ServesOne, KindFits
    <2>2. (ServesOne /\ KindFits)'
      BY <1>10 DEF IInv, DrainFails, TypeOK, ServesOne, KindFits
    <2>3. StreamFits'
      BY Zenon, <1>10 DEF IInv, DrainFails, TypeOK, ServesOne, KindFits, StreamFits
    <2>4. (RepliesFit /\ SentFits /\ ConnectedWhileServing)'
      BY <1>10 DEF IInv, DrainFails, TypeOK, ServesOne, KindFits, RepliesFit,
           SentFits, ConnectedWhileServing
    <2> QED BY Zenon, <2>1, <2>2, <2>3, <2>4 DEF IInv
  <1>11. ASSUME NEW class \in Classes, ShellFails(class) PROVE IInv'
    <2>1. TypeOK'
      BY <1>11 DEF IInv, ShellFails, TypeOK, ServesOne, KindFits
    <2>2. (ServesOne /\ KindFits)'
      BY <1>11 DEF IInv, ShellFails, TypeOK, ServesOne, KindFits
    <2>3. StreamFits'
      BY <1>11 DEF IInv, ShellFails, TypeOK, ServesOne, KindFits, StreamFits
    <2>4. (RepliesFit /\ SentFits /\ ConnectedWhileServing)'
      BY <1>11 DEF IInv, ShellFails, TypeOK, ServesOne, KindFits, RepliesFit,
           SentFits, ConnectedWhileServing
    <2> QED BY Zenon, <2>1, <2>2, <2>3, <2>4 DEF IInv
  <1>12. ASSUME NEW class \in Classes, PeerCommandFails(class) PROVE IInv'
    <2>1. TypeOK'
      BY <1>12 DEF IInv, PeerCommandFails, TypeOK, ServesOne, KindFits
    <2>2. (ServesOne /\ KindFits)'
      BY <1>12 DEF IInv, PeerCommandFails, TypeOK, ServesOne, KindFits
    <2>3. StreamFits'
      BY <1>12 DEF IInv, PeerCommandFails, TypeOK, ServesOne, KindFits, StreamFits
    <2>4. (RepliesFit /\ SentFits /\ ConnectedWhileServing)'
      BY <1>12 DEF IInv, PeerCommandFails, TypeOK, ServesOne, KindFits, RepliesFit,
           SentFits, ConnectedWhileServing
    <2> QED BY Zenon, <2>1, <2>2, <2>3, <2>4 DEF IInv
  <1> QED BY Zenon, <1>1, <1>2, <1>3, <1>4, <1>5, <1>6, <1>7, <1>8, <1>9, <1>10, <1>11,
        <1>12 DEF RunCommand

(* Shutting down releases the backlog and serves nobody. *)
LEMMA ExitKeepsIInv == ASSUME IInv, Exit PROVE IInv'
  BY DEF IInv, Exit, TypeOK, ServesOne, KindFits, StreamFits, RepliesFit, SentFits,
    ConnectedWhileServing

(* The invariant holds in every reachable state of the event loop. *)
THEOREM Invariance == Spec => []IInv
  <1>1. Init => IInv
    BY Zenon, InitIInv
  <1>2. IInv /\ [Next]_vars => IInv'
    <2> SUFFICES ASSUME IInv, [Next]_vars PROVE IInv'
      BY Zenon
    <2>1. CASE Environment
      BY Zenon, <2>1, EnvironmentKeepsIInv
    <2>2. CASE Select
      BY Zenon, <2>2, SelectKeepsIInv
    <2>3. CASE ReadLine
      BY Zenon, <2>3, ReadLineKeepsIInv
    <2>4. CASE ReconnectStep
      BY Zenon, <2>4, ReconnectKeepsIInv
    <2>5. CASE RunCommand
      BY Zenon, <2>5, RunCommandKeepsIInv
    <2>6. CASE Exit
      BY Zenon, <2>6, ExitKeepsIInv
    <2>7. CASE UNCHANGED vars
      BY <2>7 DEF IInv, TypeOK, ServesOne, KindFits, StreamFits, RepliesFit, SentFits, ConnectedWhileServing
    <2> QED BY Zenon, <2>1, <2>2, <2>3, <2>4, <2>5, <2>6, <2>7 DEF Next
  <1> QED BY <1>1, <1>2, PTL DEF Spec

(* The variables of the event loop keep their types; in particular a          *)
(* reconnect never makes more than MaxAttempts attempts.                      *)
THEOREM TypeCorrect == Spec => []TypeOK
  <1>1. IInv => TypeOK
    BY Zenon DEF IInv
  <1> QED BY <1>1, Invariance, PTL

(* No command runs on a stream logged in for another mode, whatever mode      *)
(* switches and reconnects failed before.                                     *)
THEOREM ModeCorrect == Spec => []StreamMatchesCommand
  <1>1. IInv => StreamMatchesCommand
    BY Zenon DEF IInv, StreamFits, StreamMatchesCommand
  <1> QED BY <1>1, Invariance, PTL

(* A service id is never remembered across a switch out of Terminal mode. *)
THEOREM ServiceIdCorrect == Spec => []ServiceIdOnlyInTerminalMode
  <1>1. IInv => ServiceIdOnlyInTerminalMode
    BY Zenon DEF IInv, StreamFits
  <1> QED BY <1>1, Invariance, PTL

(* Every client that is still there is answered exactly once. *)
THEOREM AnswerCorrect == Spec => []AnsweredExactlyOnce
  <1>1. IInv => AnsweredExactlyOnce
    BY Zenon DEF IInv, RepliesFit
  <1> QED BY <1>1, Invariance, PTL

(* No command reaches the peer more than twice. *)
THEOREM RetryCorrect == Spec => []SentAtMostTwice
  <1>1. IInv => SentAtMostTwice
    <2> SUFFICES ASSUME IInv, NEW c \in Clients
                 PROVE  /\ sent[c] <= 2
                        /\ sent[c] = 2 => (c = cur /\ run = 2) \/ cli[c] = "closed"
      BY Zenon DEF SentAtMostTwice
    <2>1. CASE cli[c] \in {"out", "waiting"}
      BY <2>1 DEF IInv, KindFits
    <2>2. CASE cli[c] = "served"
      BY <2>2 DEF IInv, TypeOK, ServesOne, SentFits
    <2>3. CASE cli[c] = "closed"
      BY Zenon, <2>3 DEF IInv, SentFits
    <2> QED BY ZenonT(60), <2>1, <2>2, <2>3 DEF IInv, TypeOK
  <1> QED BY <1>1, Invariance, PTL

(* The session is Connected whenever the loop can serve. *)
THEOREM SessionCorrect == Spec => []ConnectedWhileServing
  <1>1. IInv => ConnectedWhileServing
    BY Zenon DEF IInv
  <1> QED BY <1>1, Invariance, PTL

(* No exit path leaves a client half served. *)
THEOREM ShutdownCorrect == Spec => []ShutdownAbandonsNobody
  <1>1. IInv => ShutdownAbandonsNobody
    BY Zenon DEF IInv, ServesOne, ShutdownAbandonsNobody
  <1> QED BY <1>1, Invariance, PTL

(* A client that was told of success has sent a command, and if that was      *)
(* Disconnect the daemon is on its way out.                                   *)
AckedFits ==
    \A c \in acked :
        /\ kind[c] # "none"
        /\ kind[c] = "Disconnect" => pc \in {"shutdown", "exited"} /\ session = "Disconnected"

(* Success is reported to nobody but the client being served, and to a client *)
(* that sent Disconnect only where the session is given up.                   *)
LEMMA StepKeepsAckedFits == ASSUME IInv, AckedFits, Next PROVE AckedFits'
  <1>1. CASE Environment
    BY Zenon, <1>1 DEF AckedFits, Environment, ClientConnects, ClientLeaves, StreamFails,
       PeerFallsQuiet, SignalArrives, HeartbeatTaskTicks
  <1>2. CASE Select
    BY Zenon, <1>2 DEF AckedFits, Select, PeerMessage, PeerCloseReason, PeerError,
       HeartbeatTick, Accept, IdleTimeout, HandleSignal
  <1>3. CASE ReadLine
    <2>1. CASE ReadLineFails
      BY Zenon, <2>1 DEF AckedFits, ReadLineFails
    <2>2. ASSUME NEW k \in Commands \cup {"Invalid"}, ReadCommand(k) PROVE AckedFits'
      <3>1. pc = "read" /\ kind[cur] = "none" /\ cur \notin acked
        BY Zenon, <2>2 DEF IInv, KindFits, AckedFits, ReadCommand
      <3>2. acked' = acked /\ \A c \in acked : kind'[c] = kind[c]
        BY ZenonT(60), <2>2, <3>1 DEF IInv, TypeOK, ReadCommand
      <3> QED BY Zenon, <3>1, <3>2 DEF AckedFits
    <2> QED BY Zenon, <1>3, <2>1, <2>2 DEF ReadLine
  <1>4. CASE ReconnectStep
    BY Zenon, <1>4 DEF AckedFits, ReconnectStep, AttemptFails, InitializeFails, AttemptSucceeds
  <1>5. CASE RunCommand
    <2>1. pc \in Running /\ kind' = kind
      BY ZenonT(60), <1>5 DEF RunCommand, OpenTerminal, SendExec, ExecEnds, ChunkWriteFails, ShellEnds,
         PeerCommandSucceeds, Dispatch, OpenFails, ExecTerminalError, DrainFails,
         ShellFails, PeerCommandFails
    <2>2. \A c \in acked : kind[c] # "none" /\ kind[c] # "Disconnect"
      BY Zenon, <2>1 DEF AckedFits
    <2>3. CASE Dispatch
      BY ZenonT(60), <2>1, <2>2, <2>3 DEF AckedFits, Dispatch, IInv, ConnectedWhileServing
    <2>4. CASE acked' = acked
      BY Zenon, <2>1, <2>2, <2>4 DEF AckedFits
    <2>5. CASE ~Dispatch /\ acked' # acked
      <3>1. kind[cur] \in {"Exec", "Shell", "Push", "Query"} /\ acked' = acked \cup {cur}
        BY ZenonT(60), <1>5, <2>5 DEF RunCommand, OpenTerminal, SendExec, ExecEnds, ChunkWriteFails,
           ShellEnds, PeerCommandSucceeds, OpenFails, ExecTerminalError,
           DrainFails, ShellFails, PeerCommandFails, IInv, KindFits
      <3> QED BY ZenonT(60), <2>1, <2>2, <3>1 DEF AckedFits
    <2> QED BY Zenon, <2>3, <2>4, <2>5
  <1>6. CASE Exit
    BY Zenon, <1>6 DEF AckedFits, Exit
  <1> QED BY ZenonT(60), <1>1, <1>2, <1>3, <1>4, <1>5, <1>6 DEF Next

(* A Disconnect that was answered with success is final. *)
THEOREM DisconnectCorrect == Spec => []AckedDisconnectIsFinal
  <1>1. Init => AckedFits
    BY Zenon DEF Init, AckedFits
  <1>2. IInv /\ AckedFits /\ [Next]_vars => AckedFits'
    <2> SUFFICES ASSUME IInv, AckedFits, [Next]_vars PROVE AckedFits'
      BY Zenon
    <2>1. CASE UNCHANGED vars
      BY Zenon, <2>1 DEF AckedFits
    <2> QED BY Zenon, <2>1, StepKeepsAckedFits
  <1>3. AckedFits => AckedDisconnectIsFinal
    BY Zenon DEF AckedFits, AckedDisconnectIsFinal
  <1> QED BY <1>1, <1>2, <1>3, Invariance, PTL DEF Spec

-----------------------------------------------------------------------------
(* The event loop implements CommandServer. *)

(* A step that leaves the clients alone is invisible to them. *)
LEMMA QuietStep ==
  ASSUME UNCHANGED <<cur, cli, gone, replies>>,
         pc # "exited", pc' # "exited"
  PROVE  UNCHANGED Server!vars
  BY Zenon DEF Server!vars

(* What Respond does to the clients, whatever the response says. *)
Responded ==
    replies' = IF cur \in gone THEN replies ELSE [replies EXCEPT ![cur] = @ + 1]

(* Hanging up on a client that is answered now, was answered before or has    *)
(* gone is the server's Release.                                              *)
LEMMA HangupReleases ==
  ASSUME IInv, cur # None, Hangup, UNCHANGED gone,
         pc # "exited", pc' # "exited",
         \/ Responded
         \/ NoResponse /\ (cur \in gone \/ pc = "shell")
  PROVE  Server!Release
  <1>1. cur \in Clients /\ cli[cur] = "served"
    BY Zenon DEF IInv, TypeOK, ServesOne
  <1>2. {c \in Clients : cli[c] = "closed"}' = {c \in Clients : cli[c] = "closed"} \cup {cur}
    BY <1>1 DEF IInv, TypeOK
  <1>3. {c \in Clients : cli[c] = "waiting"}' = {c \in Clients : cli[c] = "waiting"}
    BY Zenon, <1>1 DEF IInv, TypeOK
  <1>4. {c \in Clients : replies[c] # 0}' =
          IF cur \in gone THEN {c \in Clients : replies[c] # 0}
          ELSE {c \in Clients : replies[c] # 0} \cup {cur}
    <2>1. CASE Responded
      BY <1>1, <2>1 DEF IInv, TypeOK, Responded
    <2>2. CASE NoResponse /\ cur \in gone
      BY Zenon, <2>2
    <2>3. CASE NoResponse /\ pc = "shell"
      BY <1>1, <2>3 DEF IInv, RepliesFit
    <2> QED BY Zenon, <2>1, <2>2, <2>3
  <1> QED BY Zenon, <1>1, <1>2, <1>3, <1>4 DEF Server!Release

(* A command that ends, and one that fails and is answered or retried. *)
LEMMA FinishReleases ==
  ASSUME IInv, pc \in Running, NEW ok, Finish(ok), UNCHANGED gone
  PROVE  Server!Release
  <1>1. cur # None
    BY Zenon DEF IInv, ServesOne
  <1>2. Responded /\ Hangup
    BY Zenon DEF Responded
  <1> QED BY Zenon, <1>1, <1>2, HangupReleases

LEMMA FailReleasesOrRetries ==
  ASSUME IInv, pc \in Running, NEW class, Fail(class), UNCHANGED gone
  PROVE  Server!Release \/ UNCHANGED Server!vars
  <1>1. CASE Finish(FALSE)
    BY Zenon, <1>1, FinishReleases
  <1>2. CASE Reconnect("retry") /\ NoResponse /\ KeepClient
    BY Zenon, <1>2, QuietStep
  <1> QED BY Zenon, <1>1, <1>2

(* Every step of the loop is a step of the server or invisible to clients. *)
LEMMA StepImplementsServer ==
  ASSUME IInv, Next PROVE Server!Next \/ UNCHANGED Server!vars
  <1>1. ASSUME NEW c \in Clients, ClientConnects(c) PROVE Server!Arrive(c)
    <2>1. cli[c] = "out" /\ cur # c
      BY Zenon, <1>1 DEF IInv, ServesOne, ClientConnects
    <2>2. {d \in Clients : cli[d] = "waiting"}' = {d \in Clients : cli[d] = "waiting"} \cup {c}
      BY <1>1 DEF IInv, TypeOK, ClientConnects
    <2>3. {d \in Clients : cli[d] = "closed"}' = {d \in Clients : cli[d] = "closed"}
      BY Zenon, <1>1 DEF IInv, TypeOK, ClientConnects
    <2> QED BY Zenon, <1>1, <2>1, <2>2, <2>3 DEF Server!Arrive, ClientConnects
  <1>2. ASSUME NEW c \in Clients, ClientLeaves(c) PROVE Server!Leave(c)
    BY Zenon, <1>2 DEF IInv, ServesOne, ClientLeaves, Server!Leave
  <1>3. ASSUME NEW c \in Clients, Accept(c) PROVE Server!Take(c)
    <2>1. cur = None
      BY Zenon, <1>3 DEF IInv, ServesOne, Accept
    <2>2. {d \in Clients : cli[d] = "waiting"}' = {d \in Clients : cli[d] = "waiting"} \ {c}
      BY Zenon, <1>3 DEF IInv, TypeOK, Accept
    <2>3. {d \in Clients : cli[d] = "closed"}' = {d \in Clients : cli[d] = "closed"}
      BY Zenon, <1>3 DEF IInv, TypeOK, Accept
    <2> QED BY Zenon, <1>3, <2>1, <2>2, <2>3 DEF Server!Take, Accept
  <1>4. CASE \/ \E h \in {"silent", "broken"} : StreamFails(h)
             \/ PeerFallsQuiet \/ SignalArrives \/ HeartbeatTaskTicks
    BY Zenon, <1>4, QuietStep DEF StreamFails, PeerFallsQuiet, SignalArrives, HeartbeatTaskTicks
  <1>5. CASE \/ PeerMessage \/ PeerCloseReason \/ PeerError \/ HeartbeatTick
             \/ IdleTimeout \/ HandleSignal
    BY Zenon, <1>5, QuietStep DEF PeerMessage, PeerCloseReason, PeerError, HeartbeatTick,
       IdleTimeout, HandleSignal
  <1>6. CASE ReadLineFails
    BY Zenon, <1>6, HangupReleases DEF ReadLineFails, IInv, ServesOne, Server!Next
  <1>7. ASSUME NEW k, ReadCommand(k) PROVE Server!Release \/ UNCHANGED Server!vars
    <2>1. cur # None
      BY Zenon, <1>7 DEF IInv, ServesOne, ReadCommand
    <2>2. CASE k = "Invalid"
      BY Zenon, <1>7, <2>1, <2>2, HangupReleases DEF ReadCommand, Responded
    <2>3. CASE k # "Invalid"
      BY Zenon, <1>7, <2>3, QuietStep DEF ReadCommand
    <2> QED BY Zenon, <2>2, <2>3
  <1>8. CASE ReconnectFails /\ pc = "reconnect"
    <2>1. CASE cont = "select"
      BY Zenon, <1>8, <2>1, QuietStep
    <2>2. CASE cont # "select"
      <3>1. cur # None
        BY Zenon, <1>8, <2>2 DEF IInv, ServesOne
      <3> QED BY Zenon, <1>8, <2>2, <3>1, HangupReleases DEF Responded, Server!Next
    <2> QED BY Zenon, <2>1, <2>2
  <1>9. CASE AttemptFails /\ ~ReconnectFails
    BY Zenon, <1>9, QuietStep DEF AttemptFails
  <1>10. CASE AttemptSucceeds
    BY Zenon, <1>10, QuietStep DEF AttemptSucceeds
  <1>11. ASSUME NEW s \in ServiceIds, OpenTerminal(s)
         PROVE  Server!Answer \/ Server!Release \/ UNCHANGED Server!vars
    <2>1. cur \in Clients /\ cli[cur] = "served" /\ replies[cur] = 0
      BY ZenonT(60), <1>11 DEF IInv, TypeOK, ServesOne, RepliesFit, OpenTerminal
    <2>2. CASE pc' = "drain"
      BY Zenon, <1>11, <2>2, QuietStep DEF OpenTerminal
    <2>3. CASE pc' = "shell"
      <3>1. Responded /\ KeepClient /\ cur \notin gone /\ UNCHANGED gone
        BY Zenon, <1>11, <2>3 DEF OpenTerminal, Responded
      <3>2. {c \in Clients : replies[c] # 0}' = {c \in Clients : replies[c] # 0} \cup {cur}
        BY <2>1, <3>1 DEF IInv, TypeOK, Responded
      <3> QED BY ZenonT(60), <1>11, <2>1, <2>3, <3>1, <3>2 DEF Server!Answer, OpenTerminal
    <2>4. CASE pc' = "reconnect"
      BY Zenon, <1>11, <2>1, <2>4, HangupReleases DEF OpenTerminal
    <2> QED BY ZenonT(60), <1>11, <2>2, <2>3, <2>4 DEF OpenTerminal
  <1>12. CASE SendExec
    BY Zenon, <1>12, QuietStep DEF SendExec
  <1>13. CASE ExecEnds \/ PeerCommandSucceeds \/ Dispatch
    <2>1. pc \in Running /\ UNCHANGED gone /\ \E ok : Finish(ok)
      BY Zenon, <1>13 DEF ExecEnds, PeerCommandSucceeds, Dispatch
    <2> QED BY Zenon, <2>1, FinishReleases DEF Server!Next
  <1>14. CASE ShellEnds
    BY Zenon, <1>14, HangupReleases DEF ShellEnds, IInv, ServesOne, Server!Next
  <1>15. CASE ChunkWriteFails
    BY Zenon, <1>15, FailReleasesOrRetries DEF ChunkWriteFails, Server!Next
  <1>16. ASSUME NEW class \in Classes, OpenFails(class)
         PROVE  Server!Release \/ UNCHANGED Server!vars
    <2>1. CASE kind[cur] = "Exec"
      BY Zenon, <1>16, <2>1, FailReleasesOrRetries DEF OpenFails
    <2>2. CASE kind[cur] = "Shell"
      BY Zenon, <1>16, <2>2, HangupReleases DEF OpenFails, Responded, IInv, ServesOne
    <2> QED BY Zenon, <1>16, <2>1, <2>2 DEF OpenFails
  <1>17. ASSUME NEW class \in Classes,
                ExecTerminalError(class) \/ DrainFails(class) \/ PeerCommandFails(class)
         PROVE  Server!Release \/ UNCHANGED Server!vars
    <2>1. pc \in Running /\ UNCHANGED gone /\ Fail(class)
      BY Zenon, <1>17 DEF ExecTerminalError, DrainFails, PeerCommandFails
    <2> QED BY Zenon, <2>1, FailReleasesOrRetries
  <1>18. ASSUME NEW class \in Classes, ShellFails(class) PROVE Server!Release
    BY Zenon, <1>18, HangupReleases DEF ShellFails, IInv, ServesOne
  <1>19. CASE Exit
    <2>1. cur = None
      BY Zenon, <1>19 DEF IInv, ServesOne, Exit
    <2>2. {c \in Clients : cli[c] = "waiting"}' = {}
      BY Zenon, <1>19 DEF Exit
    <2>3. {c \in Clients : cli[c] = "closed"}' =
            {c \in Clients : cli[c] = "closed"} \cup {c \in Clients : cli[c] = "waiting"}
      BY Zenon, <1>19 DEF Exit
    <2> QED BY Zenon, <1>19, <2>1, <2>2, <2>3 DEF Exit, Server!Stop, Server!Next
  <1>20. CASE Environment \/ Select
    BY ZenonT(60), <1>1, <1>2, <1>3, <1>4, <1>5, <1>20 DEF Environment, Select, Server!Next
  <1>21. CASE ReadLine \/ ReconnectStep
    BY ZenonT(60), <1>6, <1>7, <1>8, <1>9, <1>10, <1>21
       DEF ReadLine, ReconnectStep, AttemptFails, InitializeFails, Server!Next
  <1>22. CASE RunCommand
    BY ZenonT(60), <1>11, <1>12, <1>13, <1>14, <1>15, <1>16, <1>17, <1>18, <1>22 DEF RunCommand, Server!Next
  <1> QED BY Zenon, <1>19, <1>20, <1>21, <1>22 DEF Next

(* The daemon keeps CommandServer's promise: one client at a time, answered   *)
(* before it is let go, and nobody served after the exit.                     *)
THEOREM Implementation == Spec => ImplementsCommandServer
  <1>1. Init => Server!Init
    BY ZenonT(60) DEF Init, Server!Init
  <1>2. IInv /\ [Next]_vars => [Server!Next]_(Server!vars)
    <2>1. UNCHANGED vars => UNCHANGED Server!vars
      BY Zenon DEF Server!vars
    <2> QED BY Zenon, <2>1, StepImplementsServer
  <1> QED BY <1>1, <1>2, Invariance, PTL DEF Spec, Server!Spec, ImplementsCommandServer

-----------------------------------------------------------------------------
(* The files of the daemon: module DaemonLifecycle, for any number of         *)
(* invocations and crashes.                                                   *)

HIDE DEF vars, loopVars, peerVars, eventVars, clientVars, Goto, Reconnect, Respond,
    NoResponse, Hangup, KeepClient, Finish, Fail, Classes, DroppedRecv, RunPc,
    ReconnectFails, TargetMode, MoreAttempts, InstalledConnType,
    login_union_for_conn_type, ServiceIdFor, is_keepalive_expired,
    conn_type_for_command, Serving, Running, Pcs, Streams, Modes, Healths,
    Terminals, Kinds, Dispatched, LoopTypeOK, PeerTypeOK, EventTypeOK, ClientTypeOK,
    AnsweredExactlyOnce, ServiceIdOnlyInTerminalMode, SessionAfter, Succeeds

USE StartsAssumption
    DEF Unspawned, Ended, Bound, Checking, Ready, MayOwnSocket, MayBeInLock, NotFailed,
        CliLabels, DaemonLabels, LockFiles, pid_is_alive, At, Go, Passed, Bailed

-----------------------------------------------------------------------------
(* No file and no reason to fail in the beginning. *)
LEMMA InitOwnership == LifecycleInit => OwnershipInv
  BY DEF LifecycleInit, OwnershipInv

(* A check of the files moves its process and at most removes files. *)
LEMMA CleanupStaleKeepsOwnership ==
  ASSUME OwnershipInv, NEW r \in Roles, NEW i \in Starts, CleanupStale(r, i)
  PROVE  OwnershipInv'
<1> USE DEF Roles
<1>1. CASE CheckExists(r, i)
  BY <1>1 DEF OwnershipInv, CheckExists
<1>2. CASE ProbeSocket(r, i)
  BY <1>2 DEF OwnershipInv, ProbeSocket
<1>3. CASE ProbeLock(r, i)
  BY <1>3 DEF OwnershipInv, ProbeLock
<1>4. CASE RemoveStaleSocket(r, i)
  BY <1>4 DEF OwnershipInv, RemoveStaleSocket
<1>5. CASE RemoveStaleLock(r, i)
  BY <1>5 DEF OwnershipInv, RemoveStaleLock
<1>6. CASE RemoveStaleError(r, i)
  BY <1>6 DEF OwnershipInv, RemoveStaleError
<1> QED
  BY Zenon, <1>1, <1>2, <1>3, <1>4, <1>5, <1>6 DEF CleanupStale

(* The invocation's own steps do not touch what daemons own. *)
LEMMA CliKeepsOwnership ==
  ASSUME OwnershipInv, NEW i \in Starts,
         StartConnect(i) \/ Spawn(i) \/ SeeLock(i) \/ WaitEnds(i)
  PROVE  OwnershipInv'
  BY DEF OwnershipInv, StartConnect, Spawn, SeeLock, WaitEnds

(* What daemon i may own at label m, it still may own at label l. *)
Owns(m, l) ==
    /\ l \in DaemonLabels /\ m # "unborn"
    /\ m \in Ready => l \in Ready
    /\ l \in NotFailed => m \in NotFailed

KeepsSocket(m, l) == m \in MayOwnSocket => l \in MayOwnSocket

KeepsLock(m, l) == m \in MayBeInLock => l \in MayBeInLock

(* A daemon that moves on and at most removes files. *)
LEMMA MoveKeepsOwnership ==
  ASSUME OwnershipInv, NEW i \in Starts, NEW l,
         daemon' = [daemon EXCEPT ![i] = l], Owns(daemon[i], l),
         UNCHANGED <<launcher, why>>,
         sock' = Absent \/ (sock' = sock /\ KeepsSocket(daemon[i], l)),
         lock' = Absent \/ (lock' = lock /\ KeepsLock(daemon[i], l))
  PROVE  OwnershipInv'
<1> USE DEF Owns, KeepsSocket, KeepsLock
<1> HIDE DEF CliLabels, DaemonLabels, MayOwnSocket, Ready, MayBeInLock, NotFailed, Checking, LockFiles
<1>1. daemon' \in [Starts -> DaemonLabels] /\ daemon'[i] = l
  BY Zenon DEF OwnershipInv
<1>2. \A j \in Starts : j # i => daemon'[j] = daemon[j]
  BY Zenon DEF OwnershipInv
<1>3. sock' # Absent => sock' \in Starts /\ daemon'[sock'] \in MayOwnSocket
  BY <1>1, <1>2, SMTT(60) DEF OwnershipInv
<1>4. ASSUME lock' # Absent
      PROVE  /\ daemon'[lock'.file] \in Ready /\ why'[lock'.file] = "none"
             /\ lock'.pid # Absent => /\ daemon'[lock'.pid] \in MayBeInLock
                                      /\ why'[lock'.pid] = "none"
  <2>1. lock' = lock /\ lock \in LockFiles
    BY Zenon, <1>4 DEF OwnershipInv
  <2>2. lock.file \in Starts /\ (lock.pid # Absent => lock.pid \in Starts)
    BY Zenon, <2>1 DEF LockFiles
  <2> QED
    BY Zenon, <1>1, <1>2, <1>4, <2>1, <2>2 DEF OwnershipInv
<1>5. \A j \in Starts : daemon'[j] \in NotFailed => why'[j] = "none"
  BY Zenon, <1>1, <1>2 DEF OwnershipInv
<1>6. \A j \in Starts : launcher'[j] \in Checking \cup {"ready", "spawn"} => daemon'[j] = "unborn"
  BY Zenon, <1>1, <1>2 DEF OwnershipInv
<1> QED
  BY ZenonT(60), <1>1, <1>3, <1>4, <1>5, <1>6 DEF OwnershipInv

(* Startup: the daemon takes the socket, and the lock file once it is ready. *)
LEMMA StartupKeepsOwnership ==
  ASSUME OwnershipInv, NEW i \in Starts,
         \/ Bind(i) \/ Chmod(i) \/ ConnectSucceeds(i) \/ InitSucceeds(i)
         \/ StartupFails(i) \/ WriteStartupError(i) \/ LockCreate(i) \/ LockWrite(i)
  PROVE  OwnershipInv'
<1>1. CASE Bind(i) /\ sock # Absent
  <2>1. Owns("bind", "dead") /\ KeepsSocket("bind", "dead") /\ KeepsLock("bind", "dead")
    BY Zenon DEF Owns, KeepsSocket, KeepsLock
  <2> QED
    BY <1>1, <2>1, MoveKeepsOwnership, ZenonT(60) DEF Bind
<1>2. CASE Bind(i) /\ sock = Absent
  BY <1>2, SMTT(60) DEF OwnershipInv, Bind
<1>3. CASE Chmod(i) \/ ConnectSucceeds(i) \/ InitSucceeds(i)
  <2> DEFINE Labels == {<<"chmod", "guard_sock">>, <<"chmod", "connecting">>,
                        <<"connecting", "init">>, <<"init", "lock_create">>}
  <2>1. \A ml \in Labels : /\ Owns(ml[1], ml[2])
                           /\ KeepsSocket(ml[1], ml[2]) /\ KeepsLock(ml[1], ml[2])
    BY SMTT(60) DEF Owns, KeepsSocket, KeepsLock
  <2>2. PICK l : <<daemon[i], l>> \in Labels /\ daemon' = [daemon EXCEPT ![i] = l]
    BY <1>3, SMTT(60) DEF Chmod, ConnectSucceeds, InitSucceeds
  <2>3. Owns(daemon[i], l) /\ KeepsSocket(daemon[i], l) /\ KeepsLock(daemon[i], l)
    <3> HIDE DEF Labels, Owns, KeepsSocket, KeepsLock
    <3> QED BY Zenon, <2>1, <2>2 
  <2>4. UNCHANGED <<launcher, why, sock, lock>>
    BY <1>3, ZenonT(60) DEF Chmod, ConnectSucceeds, InitSucceeds
  <2> QED
    BY <2>2, <2>3, <2>4, MoveKeepsOwnership, ZenonT(60)
<1>4. CASE StartupFails(i)
  BY <1>4, SMTT(60) DEF OwnershipInv, StartupFails
<1>5. CASE WriteStartupError(i)
  <2> DEFINE l == IF daemon[i] = "write_error" THEN "clean_sock" ELSE "guard_sock"
  <2>1. daemon[i] \in {"write_error", "write_error_again"} /\ daemon' = [daemon EXCEPT ![i] = l]
    BY Zenon, <1>5 DEF WriteStartupError
  <2>2. Owns(daemon[i], l) /\ KeepsSocket(daemon[i], l) /\ KeepsLock(daemon[i], l)
    BY Zenon, <2>1 DEF Owns, KeepsSocket, KeepsLock
  <2>3. UNCHANGED <<launcher, why, sock, lock>>
    BY <1>5, ZenonT(60) DEF WriteStartupError
  <2> HIDE DEF l
  <2> QED
    BY <2>1, <2>2, <2>3, MoveKeepsOwnership, ZenonT(60)
<1>6. CASE LockCreate(i)
  BY <1>6, SMTT(60) DEF OwnershipInv, LockCreate
<1>7. CASE LockWrite(i)
  BY <1>7, SMTT(60) DEF OwnershipInv, LockWrite
<1> QED
  BY Zenon, <1>1, <1>2, <1>3, <1>4, <1>5, <1>6, <1>7 

(* The end: both cleanups remove the files before the daemon is gone. *)
LEMMA EndKeepsOwnership ==
  ASSUME OwnershipInv, NEW i \in Starts,
         Stop(i) \/ CleanupSocket(i) \/ CleanupError(i) \/ CleanupLock(i) \/ Crash(i)
  PROVE  OwnershipInv'
<1>1. CASE Stop(i)
  BY <1>1, SMTT(60) DEF OwnershipInv, Stop
<1>2. CASE CleanupSocket(i)
  BY <1>2, SMTT(60) DEF OwnershipInv, CleanupSocket
<1>3. CASE CleanupError(i)
  BY <1>3, SMTT(60) DEF OwnershipInv, CleanupError
<1>4. CASE CleanupLock(i)
  BY <1>4, SMTT(60) DEF OwnershipInv, CleanupLock
<1>5. CASE Crash(i)
  BY <1>5, SMTT(60) DEF OwnershipInv, Crash
<1> QED
  BY Zenon, <1>1, <1>2, <1>3, <1>4, <1>5 

(* OwnershipInv holds in every reachable state, however many invocations race *)
(* and wherever daemons crash.                                                *)
THEOREM Ownership == LifecycleSpec => []OwnershipInv
<1>1. OwnershipInv /\ [LifecycleNext]_lifecycleVars => OwnershipInv'
  <2> SUFFICES ASSUME OwnershipInv, [LifecycleNext]_lifecycleVars PROVE OwnershipInv'
    BY Zenon
  <2>1. CASE UNCHANGED lifecycleVars
    BY <2>1 DEF OwnershipInv, lifecycleVars
  <2>2. ASSUME NEW i \in Starts,
               StartConnect(i) \/ CliStep(i) \/ DaemonStep(i) \/ Stop(i) \/ Crash(i)
        PROVE  OwnershipInv'
    <3>1. CASE CleanupStale("cli", i) \/ CleanupStale("daemon", i)
      BY Zenon, <3>1, CleanupStaleKeepsOwnership DEF Roles
    <3>2. CASE StartConnect(i) \/ Spawn(i) \/ SeeLock(i) \/ WaitEnds(i)
      BY Zenon, <3>2, CliKeepsOwnership
    <3>3. CASE \/ Bind(i) \/ Chmod(i) \/ ConnectSucceeds(i) \/ InitSucceeds(i)
               \/ StartupFails(i) \/ WriteStartupError(i) \/ LockCreate(i) \/ LockWrite(i)
      BY Zenon, <3>3, StartupKeepsOwnership
    <3>4. CASE Stop(i) \/ CleanupSocket(i) \/ CleanupError(i) \/ CleanupLock(i) \/ Crash(i)
      BY Zenon, <3>4, EndKeepsOwnership
    <3> QED
      BY Zenon, <2>2, <3>1, <3>2, <3>3, <3>4 DEF CliStep, DaemonStep
  <2> QED
    BY Zenon, <2>1, <2>2 DEF LifecycleNext
<1> QED
  BY InitOwnership, <1>1, PTL DEF LifecycleSpec

(* However a daemon ends by itself (a failed bind, a failed startup, a        *)
(* graceful shutdown), no socket and no lock file leads to it afterwards.     *)
THEOREM CleanExit == LifecycleSpec => []ExitLeavesNothing
<1>1. OwnershipInv => ExitLeavesNothing
  BY DEF OwnershipInv, ExitLeavesNothing
<1> QED
  BY Ownership, <1>1, PTL

(* A lock file is always the work of daemons whose startup succeeded. *)
THEOREM Readiness == LifecycleSpec => []LockSignalsReadiness
<1>1. OwnershipInv => LockSignalsReadiness
  BY Zenon DEF OwnershipInv, LockSignalsReadiness
<1> QED
  BY Ownership, <1>1, PTL

-----------------------------------------------------------------------------
(* Type correctness.  What a process has seen of the files is Boolean and is  *)
(* treated apart from the rest.                                               *)

Seen == [Roles -> [Starts -> [socket_exists : BOOLEAN, lock_exists : BOOLEAN,
                              socket_alive : BOOLEAN]]]

Rest ==
    /\ launcher \in [Starts -> CliLabels]
    /\ daemon \in [Starts -> DaemonLabels]
    /\ why \in [Starts -> {"none", "connecting", "init"}]
    /\ fd \in [Starts -> Starts \cup {Absent}]
    /\ sock \in Starts \cup {Absent}
    /\ lock \in LockFiles \cup {Absent}
    /\ error \in Starts \cup {Absent}
    /\ crashes \in 0 .. MaxCrashes

LEMMA CleanupStaleKeepsRest ==
  ASSUME Rest, NEW r \in Roles, NEW i \in Starts, CleanupStale(r, i)
  PROVE  Rest'
<1>1. CASE r = "cli"
  BY ZenonT(60), <1>1 DEF Rest, CleanupStale, CheckExists, ProbeSocket, ProbeLock, RemoveStaleSocket,
              RemoveStaleLock, RemoveStaleError
<1>2. CASE r = "daemon"
  BY <1>2 DEF Rest, CleanupStale, CheckExists, ProbeSocket, ProbeLock, RemoveStaleSocket,
              RemoveStaleLock, RemoveStaleError
<1> QED
  BY Zenon, <1>1, <1>2 DEF Roles

LEMMA StepKeepsRest ==
  ASSUME Rest, NEW i \in Starts,
         StartConnect(i) \/ CliStep(i) \/ DaemonStep(i) \/ Stop(i) \/ Crash(i)
  PROVE  Rest'
<1>1. CASE CleanupStale("cli", i) \/ CleanupStale("daemon", i)
  BY Zenon, <1>1, CleanupStaleKeepsRest DEF Roles
<1>2. CASE StartConnect(i) \/ Spawn(i) \/ SeeLock(i) \/ WaitEnds(i)
  BY Zenon, <1>2 DEF Rest, StartConnect, Spawn, SeeLock, WaitEnds
<1>3. CASE Bind(i) \/ Chmod(i) \/ ConnectSucceeds(i) \/ InitSucceeds(i) \/ StartupFails(i)
  BY <1>3 DEF Rest, Bind, Chmod, ConnectSucceeds, InitSucceeds, StartupFails
<1>4. CASE WriteStartupError(i)
  BY Zenon, <1>4 DEF Rest, WriteStartupError
<1>5. CASE LockCreate(i)
  BY Zenon, <1>5 DEF Rest, LockCreate
<1>6. CASE LockWrite(i)
  BY Zenon, <1>6 DEF Rest, LockWrite
<1>7. CASE Stop(i) \/ CleanupSocket(i) \/ CleanupError(i) \/ CleanupLock(i)
  BY <1>7 DEF Rest, Stop, CleanupSocket, CleanupError, CleanupLock
<1>8. CASE Crash(i)
  BY <1>8, CrashesAssumption DEF Rest, Crash
<1> QED
  BY Zenon, <1>1, <1>2, <1>3, <1>4, <1>5, <1>6, <1>7, <1>8 DEF CliStep, DaemonStep

LEMMA StepKeepsSeen ==
  ASSUME seen \in Seen, NEW i \in Starts,
         StartConnect(i) \/ CliStep(i) \/ DaemonStep(i) \/ Stop(i) \/ Crash(i)
  PROVE  seen' \in Seen
<1>1. CASE UNCHANGED seen
  BY Zenon, <1>1 DEF Seen
<1>2. ASSUME NEW r \in Roles, CheckExists(r, i) PROVE seen' \in Seen
  BY Zenon, <1>2 DEF Seen, Roles, CheckExists
<1>3. ASSUME NEW r \in Roles, ProbeSocket(r, i) PROVE seen' \in Seen
  <2>1. PICK alive \in BOOLEAN : seen' = [seen EXCEPT ![r][i].socket_alive = alive]
    BY Zenon, <1>3 DEF ProbeSocket
  <2> QED
    BY <2>1 DEF Seen, Roles
<1>4. ASSUME NEW r \in Roles, RemoveStaleError(r, i) PROVE seen' \in Seen
  BY Zenon, <1>4 DEF Seen, Roles, RemoveStaleError, Nothing
<1>5. CASE Crash(i)
  BY Zenon, <1>5 DEF Seen, Roles, Crash, Nothing
<1>6. \/ UNCHANGED seen \/ Crash(i)
      \/ \E r \in Roles : CheckExists(r, i) \/ ProbeSocket(r, i) \/ RemoveStaleError(r, i)
  BY Zenon DEF Roles, StartConnect, CliStep, DaemonStep, Stop, CleanupStale, ProbeLock, RemoveStaleSocket,
         RemoveStaleLock, Spawn, SeeLock, WaitEnds, Bind, Chmod, ConnectSucceeds, InitSucceeds,
         StartupFails, WriteStartupError, LockCreate, LockWrite, CleanupSocket, CleanupError,
         CleanupLock
<1> QED
  BY Zenon, <1>1, <1>2, <1>3, <1>4, <1>5, <1>6

(* The variables of the three files and of the processes keep their types: no *)
(* process leaves the labels of spawn_daemon and run_daemon.                  *)
THEOREM LifecycleTypeCorrect == LifecycleSpec => []LifecycleTypeOK
<1>1. LifecycleInit => Rest /\ seen \in Seen
  BY CrashesAssumption DEF LifecycleInit, Rest, Seen, Roles, Nothing
<1>2. Rest /\ seen \in Seen /\ [LifecycleNext]_lifecycleVars => (Rest /\ seen \in Seen)'
  <2> SUFFICES ASSUME Rest, seen \in Seen, [LifecycleNext]_lifecycleVars PROVE Rest' /\ seen' \in Seen
    BY Zenon DEF Seen, Roles
  <2>1. CASE UNCHANGED lifecycleVars
    BY Zenon, <2>1 DEF Rest, lifecycleVars
  <2>2. CASE LifecycleNext
    BY Zenon, <2>2, StepKeepsRest, StepKeepsSeen DEF LifecycleNext
  <2> QED
    BY Zenon, <2>1, <2>2
<1>3. Rest /\ seen \in Seen => LifecycleTypeOK
  BY Zenon DEF Rest, Seen, LifecycleTypeOK
<1> QED
  BY <1>1, <1>2, <1>3, PTL DEF LifecycleSpec
=============================================================================

------------------------------ MODULE P2pDaemon ------------------------------
(***************************************************************************)
(* The iroh-p2p daemon's process life cycle, src/iroh-p2p/src/main.rs,     *)
(* together with the daemon control of src/iroh-localops/src/process.rs    *)
(* that starts it (daemonize: nohup in the background) and stops it        *)
(* (stop: kill(pid, SIGINT)).                                              *)
(*                                                                         *)
(* main builds the runtime and blocks on serve, which loads the config,   *)
(* starts metrics, opens the keychain, reads the RPC address and creates  *)
(* the node, each with unwrap (an error panics the process); then it      *)
(* awaits p2p.run() in place, then block_until_sigint(), then shuts the   *)
(* metrics down.  daemonize starts the daemon as a background command of  *)
(* a non-interactive bash (`nohup <bin> &`), which runs it with SIGINT     *)
(* ignored (nohup and exec keep that disposition): until                   *)
(* block_until_sigint installs tokio's SIGINT handler, a SIGINT is lost.  *)
(***************************************************************************)
EXTENDS Naturals, Sequences

CONSTANT Daemons   \* the daemon processes daemonize may start, by pid

VARIABLES
    proc,      \* proc[d]: where daemon d is in main/serve, or how it ended
    node,      \* node[d]: its p2p Node
    metrics,   \* metrics[d]: its MetricsHandle
    sig,       \* sig[d]: a SIGINT is pending for d's handler
    stopped    \* stopped[d]: what the last stop(d) returned

vars == <<proc, node, metrics, sig, stopped>>

(* The statements of main and serve in program order: each await or       *)
(* unwrap is a place, and "exited" is main's Ok(()).                       *)
Serve == <<"runtime", "config", "metrics", "keychain", "rpc_addr", "node_new",
           "run", "wait_sigint", "exited">>

\* The place after place s of serve.
After(s) == Serve[(CHOOSE i \in 1..Len(Serve) - 1 : Serve[i] = s) + 1]

\* The places whose unwrap panics on an error: the runtime's build, the
\* config, the metrics, the keychain, the RPC address and Node::new.
Fallible == {"runtime", "config", "metrics", "keychain", "rpc_addr", "node_new"}

Ended == {"exited", "panicked"}

Alive == {Serve[i] : i \in 1..Len(Serve)} \ Ended

TypeOK ==
    /\ proc \in [Daemons -> {"none"} \cup Alive \cup Ended]
    /\ node \in [Daemons -> {"none", "running", "stopped"}]
    /\ metrics \in [Daemons -> {"none", "running", "shutdown"}]
    /\ sig \in [Daemons -> BOOLEAN]
    /\ stopped \in [Daemons -> {"none", "ok", "err"}]

Init ==
    /\ proc = [d \in Daemons |-> "none"]
    /\ node = [d \in Daemons |-> "none"]
    /\ metrics = [d \in Daemons |-> "none"]
    /\ sig = [d \in Daemons |-> FALSE]
    /\ stopped = [d \in Daemons |-> "none"]
-----------------------------------------------------------------------------
\* Daemon d goes on to its next statement; p2p.run() starts the node.
Advance(d) ==
    /\ proc' = [proc EXCEPT ![d] = After(proc[d])]
    /\ node' = [node EXCEPT ![d] = IF After(proc[d]) = "run" THEN "running" ELSE @]

(* The start-up statements: Builder::build, make_config, MetricsHandle::   *)
(* new, Keychain::new, server_rpc_addr and Node::new, each unwrapped.      *)
(* increase_fd_limit only logs its error and is left out.                  *)
startup(d) ==
    /\ proc[d] \in Fallible
    /\ \/ /\ Advance(d)
          /\ metrics' = [metrics EXCEPT ![d] = IF proc[d] = "metrics" THEN "running" ELSE @]
       \/ /\ proc' = [proc EXCEPT ![d] = "panicked"]
          /\ UNCHANGED <<node, metrics>>
    /\ UNCHANGED <<sig, stopped>>

\* p2p.run() returns, Ok or Err (logged): the node has stopped by itself.
node_stops(d) ==
    /\ node[d] = "running" /\ proc[d] \notin Ended
    /\ node' = [node EXCEPT ![d] = "stopped"]
    /\ UNCHANGED <<proc, metrics, sig, stopped>>

\* The await of the task running p2p.run() completes.
run_returns(d) ==
    /\ proc[d] = "run" /\ node[d] = "stopped"
    /\ Advance(d)
    /\ UNCHANGED <<metrics, sig, stopped>>

(* block_until_sigint returns on the SIGINT; serve shuts the metrics down *)
(* and main returns.                                                        *)
sigint_handled(d) ==
    /\ sig[d] /\ proc[d] = "wait_sigint"
    /\ Advance(d)
    /\ metrics' = [metrics EXCEPT ![d] = "shutdown"]
    /\ sig' = [sig EXCEPT ![d] = FALSE]
    /\ UNCHANGED stopped
-----------------------------------------------------------------------------
(* daemonize: bash runs `nohup <bin> &` and returns at once; its status   *)
(* says nothing of how the daemon's start-up goes.                          *)
daemonize(d) ==
    /\ proc[d] = "none"
    /\ proc' = [proc EXCEPT ![d] = "runtime"]
    /\ UNCHANGED <<node, metrics, sig, stopped>>

(* stop: kill(pid, SIGINT).  A live process gets the signal and stop      *)
(* returns Ok; a process that has ended gives ESRCH, an Err.  The kernel  *)
(* acts on the signal at once: before block_until_sigint has installed    *)
(* its handler SIGINT is ignored and the signal is discarded; after, it   *)
(* is pending for the handler.                                             *)
stop(d) ==
    /\ proc[d] # "none"
    /\ \/ /\ proc[d] \in Alive \ {"wait_sigint"}
          /\ stopped' = [stopped EXCEPT ![d] = "ok"]
          /\ UNCHANGED sig
       \/ /\ proc[d] = "wait_sigint"
          /\ sig' = [sig EXCEPT ![d] = TRUE]
          /\ stopped' = [stopped EXCEPT ![d] = "ok"]
       \/ /\ proc[d] \in Ended
          /\ stopped' = [stopped EXCEPT ![d] = "err"]
          /\ UNCHANGED sig
    /\ UNCHANGED <<proc, node, metrics>>
-----------------------------------------------------------------------------
Daemon(d) == startup(d) \/ run_returns(d) \/ sigint_handled(d)

Next ==
    \E d \in Daemons :
        Daemon(d) \/ node_stops(d) \/ daemonize(d) \/ stop(d)

(* The runtime runs serve whenever it can go on, and the kernel delivers a *)
(* signal pending for the handler; the node stopping and the user's        *)
(* commands are free.                                                      *)
Spec == Init /\ [][Next]_vars /\ \A d \in Daemons : WF_vars(Daemon(d))
-----------------------------------------------------------------------------
(* A stop that returns Ok while the daemon's node is running leads to the *)
(* graceful shutdown serve is written for ("Cancel all async services",   *)
(* then metrics_handle.shutdown()).                                        *)
GracefulStop ==
    \A d \in Daemons :
        (stopped[d] = "ok" /\ node[d] = "running") ~> metrics[d] = "shutdown"
=============================================================================

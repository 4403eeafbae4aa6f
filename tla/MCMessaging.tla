---------------------------- MODULE MCMessaging ----------------------------
(***************************************************************************)
(* What carries a message in, asks the model and carries the reply out,    *)
(* checked in one run.  These parts share no state, so a behaviour moves   *)
(* one of them: part says which, and the state spaces add up where they    *)
(* would multiply.                                                         *)
(***************************************************************************)
EXTENDS MessageDedup, StreamReply, WsServer, Notifications, Daemon, MCChunk,
        Failover, Provider, CliExecutor, MCHistory, SseStream, TLC

VARIABLE part

channelVars  == <<dedupVars, streamVars, wsVars, noteVars, daemonVars, chunkVars>>
executorVars == <<failoverVars, providerVars, cliVars, historyVars, sseVars>>

MCInit ==
    /\ part \in {"dedup", "stream", "ws", "note", "daemon", "chunk",
                 "failover", "provider", "cli", "history", "sse"}
    /\ DedupInit /\ StreamInit /\ WsInit /\ NoteInit /\ DaemonInit /\ ChunkInit
    /\ FailoverInit /\ ProviderInit /\ CliInit /\ HistoryInit /\ SseInit
    /\ part # "stream" => known = {}
    /\ part # "chunk" => text = <<Long, Long>>

ChannelNext ==
    \/ part = "dedup" /\ DedupNext /\ UNCHANGED <<streamVars, wsVars, noteVars, daemonVars, chunkVars>>
    \/ part = "stream" /\ StreamNext /\ UNCHANGED <<dedupVars, wsVars, noteVars, daemonVars, chunkVars>>
    \/ part = "ws" /\ WsNext /\ UNCHANGED <<dedupVars, streamVars, noteVars, daemonVars, chunkVars>>
    \/ part = "note" /\ NoteNext /\ UNCHANGED <<dedupVars, streamVars, wsVars, daemonVars, chunkVars>>
    \/ part = "daemon" /\ DaemonNext /\ UNCHANGED <<dedupVars, streamVars, wsVars, noteVars, chunkVars>>
    \/ part = "chunk" /\ ChunkNext /\ UNCHANGED <<dedupVars, streamVars, wsVars, noteVars, daemonVars>>

ExecutorNext ==
    \/ part = "failover" /\ FailoverNext /\ UNCHANGED <<providerVars, cliVars, historyVars, sseVars>>
    \/ part = "provider" /\ ProviderNext /\ UNCHANGED <<failoverVars, cliVars, historyVars, sseVars>>
    \/ part = "cli" /\ CliNext /\ UNCHANGED <<failoverVars, providerVars, historyVars, sseVars>>
    \/ part = "history" /\ HistoryNext /\ UNCHANGED <<failoverVars, providerVars, cliVars, sseVars>>
    \/ part = "sse" /\ SseNext /\ UNCHANGED <<failoverVars, providerVars, cliVars, historyVars>>

MCNext ==
    /\ UNCHANGED part
    /\ \/ ChannelNext /\ UNCHANGED executorVars
       \/ ExecutorNext /\ UNCHANGED channelVars

OneChannel == [x \in Handlers |-> "dm"]
GateOrder == <<"lock", "not_shutting_down">>

Error(status, code, texts) == [status |-> status, code |-> code, texts |-> texts]
Errors == {Error(402, "rate_limit", {"rate_limit"}), Error(429, "billing", {"billing"}),
           Error(400, "none", {"context_overflow"}), Error(400, "none", {"billing"}),
           Error(0, "none", {"timeout", "auth"}), Error(0, "none", {})}

Symmetry == Permutations(Sessions)
=============================================================================

----------------------------- MODULE TipCache -----------------------------
(***************************************************************************)
(* The chain-tip cache (rust/src/wallet/sync_engine/tip_cache.rs).         *)
(*                                                                         *)
(* Transaction operations need a recent chain tip.  They take the one the  *)
(* cache holds for their endpoint and network if it was observed in the    *)
(* last TRANSACTION_TIP_MAX_AGE, and otherwise ask lightwalletd and record *)
(* the answer.  Several requests may be under way at once and their        *)
(* answers are recorded in the order they arrive, which need not be the    *)
(* order the server gave them in.                                          *)
(*                                                                         *)
(* A tip is abstracted to the endpoint that reported it and the moment at  *)
(* which it was that endpoint's tip.                                       *)
(***************************************************************************)
EXTENDS Integers

CONSTANTS
    Caller,      \* operations that want a tip
    Key,         \* CacheKey: an endpoint and a network
    NoKey,       \* "no request"
    MaxAge,      \* TRANSACTION_TIP_MAX_AGE
    RpcTimeout,  \* LIGHTWALLETD_UNARY_RPC_TIMEOUT
    MaxTime      \* bound on the clock

ASSUME TipConstants ==
    /\ NoKey \notin Key
    /\ MaxAge \in Nat /\ RpcTimeout \in Nat /\ MaxTime \in Nat

VARIABLES
    now,      \* Instant::now()
    entries,  \* LatestBlockCache.entries
    pc,       \* where a caller is
    want,     \* the key a caller asks for
    started,  \* when its request went out
    answer,   \* the tip it was given
    endedAt   \* when it was given that tip

vars == <<now, entries, pc, want, started, answer, endedAt>>

Time == 0 .. MaxTime

Tip == [from : Key, asOf : Time]

CacheEntry == [tip : Tip, observedAt : Time]

NoTip == [from |-> NoKey, asOf |-> 0]

TypeOK ==
    /\ now \in Time
    /\ \A k \in DOMAIN entries : k \in Key /\ entries[k] \in CacheEntry
    /\ pc \in [Caller -> {"idle", "asked", "answered", "done"}]
    /\ want \in [Caller -> Key \cup {NoKey}]
    /\ started \in [Caller -> Time]
    /\ endedAt \in [Caller -> Time]
    /\ answer \in [Caller -> Tip \cup {NoTip}]
    /\ \A c \in Caller : pc[c] \in {"answered", "done"} => answer[c] \in Tip

Init ==
    /\ now = 0
    /\ entries = [k \in {} |-> NoTip]
    /\ pc = [c \in Caller |-> "idle"]
    /\ want = [c \in Caller |-> NoKey]
    /\ started = [c \in Caller |-> 0]
    /\ answer = [c \in Caller |-> NoTip]
    /\ endedAt = [c \in Caller |-> 0]
----------------------------------------------------------------------------
\* Mutant of record: the entry is stamped with its deadline instead of its age.
recordDeadline(k, tip) ==
    [j \in DOMAIN entries \cup {k} |->
        IF j = k THEN [tip |-> tip, observedAt |-> now + MaxAge] ELSE entries[j]]

\* LatestBlockCache::record: the entry is overwritten whatever it holds.
record(k, tip) ==
    [j \in DOMAIN entries \cup {k} |->
        IF j = k THEN [tip |-> tip, observedAt |-> now] ELSE entries[j]]

\* Mutant of Fresh: recent() returns whatever it finds.
FreshWhateverItsAge(k) == k \in DOMAIN entries

\* LatestBlockCache::recent finds an entry that is young enough ...
Fresh(k) == k \in DOMAIN entries /\ now - entries[k].observedAt <= MaxAge

\* ... and removes one that is not.
Evicted(k) == [j \in DOMAIN entries \ {k} |-> entries[j]]

\* latest_block_for_transaction, served from the cache.
Hit(c, k) ==
    /\ pc[c] = "idle" /\ Fresh(k)
    /\ want' = [want EXCEPT ![c] = k]
    /\ answer' = [answer EXCEPT ![c] = entries[k].tip]
    /\ endedAt' = [endedAt EXCEPT ![c] = now]
    /\ pc' = [pc EXCEPT ![c] = "done"]
    /\ UNCHANGED <<now, entries, started>>

\* latest_block_for_transaction finds nothing recent and asks the server.
Miss(c, k) ==
    /\ pc[c] = "idle" /\ ~Fresh(k)
    /\ entries' = Evicted(k)
    /\ want' = [want EXCEPT ![c] = k]
    /\ started' = [started EXCEPT ![c] = now]
    /\ pc' = [pc EXCEPT ![c] = "asked"]
    /\ UNCHANGED <<now, answer, endedAt>>

\* get_latest_block_recorded called directly: the cache is not consulted.
Refresh(c, k) ==
    /\ pc[c] = "idle"
    /\ want' = [want EXCEPT ![c] = k]
    /\ started' = [started EXCEPT ![c] = now]
    /\ pc' = [pc EXCEPT ![c] = "asked"]
    /\ UNCHANGED <<now, entries, answer, endedAt>>

\* The server reads its tip (external).
ServerReplies(c) ==
    /\ pc[c] = "asked"
    /\ answer' = [answer EXCEPT ![c] = [from |-> want[c], asOf |-> now]]
    /\ pc' = [pc EXCEPT ![c] = "answered"]
    /\ UNCHANGED <<now, entries, want, started, endedAt>>

\* get_latest_block_recorded: the response arrives and is recorded.
Receive(c) ==
    /\ pc[c] = "answered"
    /\ entries' = record(want[c], answer[c])
    /\ endedAt' = [endedAt EXCEPT ![c] = now]
    /\ pc' = [pc EXCEPT ![c] = "done"]
    /\ UNCHANGED <<now, want, started, answer>>

\* get_latest_block fails, or its deadline passes: nothing is recorded.
Fail(c) ==
    /\ pc[c] \in {"asked", "answered"}
    /\ pc' = [pc EXCEPT ![c] = "idle"]
    /\ want' = [want EXCEPT ![c] = NoKey]
    /\ answer' = [answer EXCEPT ![c] = NoTip]
    /\ UNCHANGED <<now, entries, started, endedAt>>

\* The caller is finished with its tip.
Return(c) ==
    /\ pc[c] = "done"
    /\ pc' = [pc EXCEPT ![c] = "idle"]
    /\ want' = [want EXCEPT ![c] = NoKey]
    /\ answer' = [answer EXCEPT ![c] = NoTip]
    /\ UNCHANGED <<now, entries, started, endedAt>>

\* Time passes, but never past the deadline of a request that is under way:
\* await_tonic_response ends it there.
Tick ==
    /\ now < MaxTime
    /\ \A c \in Caller : pc[c] \in {"asked", "answered"} => now < started[c] + RpcTimeout
    /\ now' = now + 1
    /\ UNCHANGED <<entries, pc, want, started, answer, endedAt>>

Next ==
    \/ \E c \in Caller :
          \/ \E k \in Key : Hit(c, k) \/ Miss(c, k) \/ Refresh(c, k)
          \/ ServerReplies(c) \/ Receive(c) \/ Fail(c) \/ Return(c)
    \/ Tick

Spec == Init /\ [][Next]_vars
----------------------------------------------------------------------------
\* A transaction operation never works with a tip that stopped being current
\* longer ago than the cache's maximum age plus one request's deadline, and
\* never with another endpoint's tip, however the answers of concurrent
\* requests overtake one another on their way into the cache.
ServedTipIsRecent ==
    \A c \in Caller : pc[c] = "done" =>
        /\ answer[c].from = want[c]
        /\ endedAt[c] - answer[c].asOf <= MaxAge + RpcTimeout
============================================================================

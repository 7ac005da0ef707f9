--------------------------- MODULE TipCacheProofs ---------------------------
(* The cached tip is recent for every set of callers and endpoints, every  *)
(* age limit and every deadline.  ServedTipIsRecent says nothing about the *)
(* entries a hit is served from, nor about the answers on their way, so it *)
(* is not inductive: what is needed is how old an entry's tip can be when  *)
(* it is recorded, however long it took to arrive.                         *)
EXTENDS TipCache, TLAPS

\* A request under way is inside its deadline, and its answer is the tip of the
\* endpoint it asks, read after it was sent.
RequestsAreYoung ==
    \A c \in Caller :
        /\ pc[c] # "idle" => want[c] \in Key
        /\ pc[c] \in {"asked", "answered"} => started[c] <= now /\ now <= started[c] + RpcTimeout
        /\ pc[c] = "answered" =>
              /\ answer[c].from = want[c]
              /\ started[c] <= answer[c].asOf /\ answer[c].asOf <= now

\* An entry holds a tip of its own endpoint that was at most one deadline old
\* when it was recorded.
EntriesAreHonest ==
    \A k \in DOMAIN entries :
        /\ entries[k].tip.from = k
        /\ entries[k].observedAt <= now
        /\ entries[k].observedAt - entries[k].tip.asOf <= RpcTimeout

TipInv == TypeOK /\ RequestsAreYoung /\ EntriesAreHonest /\ ServedTipIsRecent

\* The cache starts empty.
LEMMA InitTipInv == Init => TipInv
BY TipConstants
   DEF Init, NoTip, TipInv, TypeOK, RequestsAreYoung, EntriesAreHonest, ServedTipIsRecent, Time

\* A hit: the entry's tip was one deadline old when recorded, and the entry is
\* younger than the age limit.
LEMMA HitKeeps ==
    ASSUME TipInv, NEW c \in Caller, NEW k \in Key, Hit(c, k)
    PROVE  TipInv'
<1> USE TipConstants DEF TipInv, TypeOK, Hit, Fresh, Time, Tip, CacheEntry
<1>0. entries[k] \in CacheEntry /\ entries[k].tip \in Tip
  OBVIOUS
<1>1. TypeOK'
  BY <1>0
<1>2. RequestsAreYoung' /\ EntriesAreHonest'
  BY DEF RequestsAreYoung, EntriesAreHonest
<1>3. entries[k].tip.from = k /\ now - entries[k].tip.asOf <= MaxAge + RpcTimeout
  BY <1>0 DEF EntriesAreHonest
<1>4. ServedTipIsRecent'
  BY <1>0, <1>3 DEF ServedTipIsRecent
<1> QED
  BY <1>1, <1>2, <1>4

\* A request goes out; a stale entry is dropped first when the cache was asked.
LEMMA RequestKeeps ==
    ASSUME TipInv, NEW c \in Caller, NEW k \in Key, Miss(c, k) \/ Refresh(c, k)
    PROVE  TipInv'
<1> USE TipConstants DEF TipInv, TypeOK, Time
<1>0. /\ UNCHANGED <<now, answer, endedAt>>
      /\ \A j \in DOMAIN entries' : j \in DOMAIN entries /\ entries'[j] = entries[j]
  BY DEF Miss, Refresh, Evicted
<1>1. TypeOK'
  BY <1>0 DEF Miss, Refresh
<1>2. RequestsAreYoung'
  BY <1>0 DEF Miss, Refresh, RequestsAreYoung
<1>3. EntriesAreHonest'
  BY <1>0 DEF EntriesAreHonest
<1>4. ServedTipIsRecent'
  BY <1>0 DEF Miss, Refresh, ServedTipIsRecent
<1> QED
  BY <1>1, <1>2, <1>3, <1>4

\* The server answers.
LEMMA ReplyKeeps ==
    ASSUME TipInv, NEW c \in Caller, ServerReplies(c)
    PROVE  TipInv'
<1> USE TipConstants DEF TipInv, TypeOK, ServerReplies, Time, Tip
<1>0. want[c] \in Key
  BY DEF RequestsAreYoung
<1>1. TypeOK'
  BY <1>0
<1>2. RequestsAreYoung'
  BY <1>0 DEF RequestsAreYoung
<1>3. EntriesAreHonest'
  BY DEF EntriesAreHonest
<1>4. ServedTipIsRecent'
  BY DEF ServedTipIsRecent
<1> QED
  BY <1>1, <1>2, <1>3, <1>4

\* The answer is recorded: its tip is no older than the request.
LEMMA ReceiveKeeps ==
    ASSUME TipInv, NEW c \in Caller, Receive(c)
    PROVE  TipInv'
<1> USE TipConstants DEF TipInv, TypeOK, Receive, Time, Tip
<1>0. /\ want[c] \in Key /\ answer[c] \in Tip /\ answer[c].from = want[c]
      /\ now - answer[c].asOf <= RpcTimeout
  BY DEF RequestsAreYoung
<1>1. \A j \in DOMAIN entries' :
         \/ j \in DOMAIN entries /\ entries'[j] = entries[j]
         \/ j = want[c] /\ entries'[j] = [tip |-> answer[c], observedAt |-> now]
  BY DEF record
<1>2. TypeOK'
  BY <1>0, <1>1 DEF CacheEntry
<1>3. RequestsAreYoung'
  BY DEF RequestsAreYoung
<1>4. EntriesAreHonest'
  BY <1>0, <1>1 DEF EntriesAreHonest
<1>5. ServedTipIsRecent'
  BY <1>0 DEF ServedTipIsRecent
<1> QED
  BY <1>2, <1>3, <1>4, <1>5

\* A request fails, or a caller is finished with its tip.
LEMMA EndKeeps ==
    ASSUME TipInv, NEW c \in Caller, Fail(c) \/ Return(c)
    PROVE  TipInv'
<1> USE TipConstants DEF TipInv, TypeOK, Fail, Return, NoTip
<1>1. TypeOK'
  OBVIOUS
<1>2. RequestsAreYoung' /\ EntriesAreHonest' /\ ServedTipIsRecent'
  BY DEF RequestsAreYoung, EntriesAreHonest, ServedTipIsRecent
<1> QED
  BY <1>1, <1>2

\* Time passes, up to the deadline of every request under way.
LEMMA TickKeeps ==
    ASSUME TipInv, Tick
    PROVE  TipInv'
<1> USE TipConstants DEF TipInv, TypeOK, Tick, Time, Tip, CacheEntry
<1>1. TypeOK'
  OBVIOUS
<1>2. RequestsAreYoung'
  BY DEF RequestsAreYoung
<1>3. EntriesAreHonest' /\ ServedTipIsRecent'
  BY DEF EntriesAreHonest, ServedTipIsRecent
<1> QED
  BY <1>1, <1>2, <1>3

\* Every step of a caller, the server or the clock preserves the invariant.
LEMMA TipStep == TipInv /\ [Next]_vars => TipInv'
<1> SUFFICES ASSUME TipInv, [Next]_vars PROVE TipInv'
  OBVIOUS
<1>1. ASSUME NEW c \in Caller, NEW k \in Key, Hit(c, k) \/ Miss(c, k) \/ Refresh(c, k)
      PROVE  TipInv'
  BY <1>1, HitKeeps, RequestKeeps
<1>2. ASSUME NEW c \in Caller, ServerReplies(c) \/ Receive(c) \/ Fail(c) \/ Return(c)
      PROVE  TipInv'
  BY <1>2, ReplyKeeps, ReceiveKeeps, EndKeeps
<1>3. CASE UNCHANGED vars
  BY <1>3 DEF vars, TipInv, TypeOK, RequestsAreYoung, EntriesAreHonest, ServedTipIsRecent
<1> QED
  BY <1>1, <1>2, <1>3, TickKeeps DEF Next

\* The clock, the entries and the requests keep their types.
THEOREM TipTypeCorrect == Spec => []TypeOK
<1>1. TipInv => TypeOK
  BY DEF TipInv
<1> QED
  BY <1>1, InitTipInv, TipStep, PTL DEF Spec

\* latest_block_for_transaction never returns a tip that was superseded longer
\* ago than TRANSACTION_TIP_MAX_AGE and one RPC deadline, nor the tip of another
\* endpoint, in whatever order concurrent answers overwrite an entry.
THEOREM ServedTipsAreRecent == Spec => []ServedTipIsRecent
<1>1. TipInv => ServedTipIsRecent
  BY DEF TipInv
<1> QED
  BY <1>1, InitTipInv, TipStep, PTL DEF Spec
=============================================================================

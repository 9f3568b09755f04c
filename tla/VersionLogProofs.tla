-------------------------- MODULE VersionLogProofs --------------------------
(***************************************************************************)
(* What reads, writes, watch events and restarts do to a log of versions.   *)
(***************************************************************************)
EXTENDS VersionLog, SequenceTheorems, TLAPS

\* A log's cached and live versions are versions.
LEMMA LogVersions ==
    ASSUME NEW Versions, NEW log \in Log(Versions)
    PROVE  /\ Cached(log) \in Versions
           /\ Live(log) \in Versions
           /\ Len(log) \in Nat \ {0}
BY DEF Log, Cached, Live

\* A write makes the new version the live one, and the cache is behind.
LEMMA LogAppend ==
    ASSUME NEW Versions, NEW log \in Log(Versions), NEW v \in Versions
    PROVE  /\ Append(log, v) \in Log(Versions)
           /\ Live(Append(log, v)) = v
           /\ ~Synced(Append(log, v))
BY DEF Log, Live, Synced

\* A watch event leaves the live version alone.
LEMMA LogTail ==
    ASSUME NEW Versions, NEW log \in Log(Versions), ~Synced(log)
    PROVE  /\ Tail(log) \in Log(Versions)
           /\ Live(Tail(log)) = Live(log)
           /\ log[2] \in Versions
<1>0. log \in Seq(Versions) /\ log # <<>>
  BY DEF Log
<1>1. log \in Seq(Versions) /\ Len(log) \in Nat /\ Len(log) > 1
  BY <1>0, EmptySeq DEF Synced
<1>2. /\ Tail(log) \in Seq(Versions)
      /\ Len(Tail(log)) = Len(log) - 1
      /\ \A i \in 1..Len(log) - 1 : Tail(log)[i] = log[i + 1]
  BY <1>1
<1>3. Tail(log) # <<>>
  <2>1. Len(Tail(log)) # 0
    BY <1>1, <1>2
  <2>2. Len(<<>>) = 0
    OBVIOUS
  <2> QED BY <2>1, <2>2
<1>4. Tail(log)[Len(log) - 1] = log[Len(log)]
  BY <1>1, <1>2
<1> QED BY <1>1, <1>2, <1>3, <1>4 DEF Log, Live

\* So does a restart, which leaves nothing but the live version.
LEMMA LogRestart ==
    ASSUME NEW Versions, NEW v \in Versions
    PROVE  /\ <<v>> \in Log(Versions)
           /\ Live(<<v>>) = v
           /\ Cached(<<v>>) = v
           /\ Synced(<<v>>)
BY DEF Log, Live, Cached, Synced

\* A copy read from a cache that is up to date is the live version.
LEMMA SyncedIsLive ==
    ASSUME NEW Versions, NEW log \in Log(Versions), Synced(log)
    PROVE  Cached(log) = Live(log)
BY DEF Log, Live, Cached, Synced

\* A log that is not synced has a second version.
LEMMA SecondVersion ==
    ASSUME NEW Versions, NEW log \in Log(Versions), ~Synced(log)
    PROVE  1 \in 1..Len(log) - 1 /\ 2 \in 2..Len(log)
<1>1. log \in Seq(Versions) /\ Len(log) \in Nat /\ Len(log) > 1
  BY LogVersions DEF Log, Synced
<1> QED BY <1>1

\* A write does not reach the cache.
LEMMA AppendHead ==
    ASSUME NEW Versions, NEW log \in Log(Versions), NEW v
    PROVE  Cached(Append(log, v)) = Cached(log)
<1>1. log \in Seq(Versions) /\ Len(log) \in Nat \ {0}
  BY LogVersions DEF Log
<1>2. Append(log, v)[1] = log[1]
  BY <1>1
<1> QED BY <1>1, <1>2 DEF Cached

\* What a write leaves, version by version.
LEMMA AppendIs ==
    ASSUME NEW Versions, NEW log \in Log(Versions), NEW v
    PROVE  /\ Len(log) \in Nat \ {0}
           /\ Len(Append(log, v)) = Len(log) + 1
           /\ \A i \in 1..Len(log) : Append(log, v)[i] = log[i]
           /\ Append(log, v)[Len(log) + 1] = v
<1>1. log \in Seq(Versions) /\ Len(log) \in Nat \ {0}
  BY LogVersions DEF Log
<1> QED BY <1>1

\* What a watch event leaves, version by version.
LEMMA TailIs ==
    ASSUME NEW Versions, NEW log \in Log(Versions), ~Synced(log)
    PROVE  /\ Len(log) \in Nat /\ Len(log) > 1
           /\ Len(Tail(log)) = Len(log) - 1
           /\ \A i \in 1..Len(log) - 1 : Tail(log)[i] = log[i + 1]
           /\ log[1] = Cached(log)
<1>1. log \in Seq(Versions) /\ Len(log) \in Nat /\ Len(log) > 1
  BY LogVersions DEF Log, Synced
<1>2. /\ Len(Tail(log)) = Len(log) - 1
      /\ \A i \in 1..Len(log) - 1 : Tail(log)[i] = log[i + 1]
  BY <1>1
<1> QED BY <1>1, <1>2 DEF Cached

\* The cache then has the next version.
LEMMA TailHead ==
    ASSUME NEW Versions, NEW log \in Log(Versions), ~Synced(log)
    PROVE  Cached(Tail(log)) = log[2]
<1>1. Tail(log)[1] = log[1 + 1]
  BY TailIs
<1> QED BY <1>1, LogTail DEF Cached, Log

----------------------------------------------------------------------------
(* Families of logs.                                                       *)

\* A log that was written at most once.
Grows(new, log) == new = log \/ \E v : new = Append(log, v)

\* One of the logs is written, has a watch event; all are read again.
Puts(new, logs, x, v) == new = [logs EXCEPT ![x] = Append(logs[x], v)]
Delivers(new, logs, x) == new = [logs EXCEPT ![x] = Tail(logs[x])]
Rereads(new, logs, S) == new = [y \in S |-> <<Live(logs[y])>>]

\* A write to one of the logs.
LEMMA PutFamily ==
    ASSUME NEW Versions, NEW S, NEW logs \in [S -> Log(Versions)], NEW x \in S, NEW v \in Versions,
           NEW new, Puts(new, logs, x, v)
    PROVE  /\ new \in [S -> Log(Versions)]
           /\ new[x] = Append(logs[x], v)
           /\ Live(new[x]) = v /\ ~Synced(new[x])
           /\ \A y \in S \ {x} : new[y] = logs[y]
           /\ \A y \in S : Grows(new[y], logs[y])
           /\ \A y \in S : Cached(new[y]) = Cached(logs[y])
<1>1. Append(logs[x], v) \in Log(Versions)
  BY LogAppend
<1>2. new \in [S -> Log(Versions)] /\ new[x] = Append(logs[x], v) /\ \A y \in S \ {x} : new[y] = logs[y]
  BY <1>1 DEF Puts
<1>3. Live(Append(logs[x], v)) = v /\ ~Synced(Append(logs[x], v)) /\ Cached(Append(logs[x], v)) = Cached(logs[x])
  BY LogAppend, AppendHead
<1> QED BY <1>2, <1>3 DEF Grows

\* A watch event of one of the logs.
LEMMA TailFamily ==
    ASSUME NEW Versions, NEW S, NEW logs \in [S -> Log(Versions)], NEW x \in S, ~Synced(logs[x]),
           NEW new, Delivers(new, logs, x)
    PROVE  /\ new \in [S -> Log(Versions)]
           /\ new[x] = Tail(logs[x])
           /\ Cached(new[x]) = logs[x][2]
           /\ \A y \in S \ {x} : new[y] = logs[y]
           /\ \A y \in S : Live(new[y]) = Live(logs[y])
<1>1. Tail(logs[x]) \in Log(Versions) /\ Live(Tail(logs[x])) = Live(logs[x])
  BY LogTail
<1>2. new \in [S -> Log(Versions)] /\ new[x] = Tail(logs[x]) /\ \A y \in S \ {x} : new[y] = logs[y]
  BY <1>1 DEF Delivers
<1>3. Cached(Tail(logs[x])) = logs[x][2]
  BY TailHead
<1> QED BY <1>1, <1>2, <1>3

\* A restart.
LEMMA RestartFamily ==
    ASSUME NEW Versions, NEW S, NEW logs \in [S -> Log(Versions)],
           NEW new, Rereads(new, logs, S)
    PROVE  /\ new \in [S -> Log(Versions)]
           /\ \A y \in S : /\ Live(new[y]) = Live(logs[y])
                           /\ Cached(new[y]) = Live(logs[y])
                           /\ Synced(new[y])
                           /\ Len(new[y]) = 1
                           /\ new[y][1] = Live(logs[y])
<1>1. \A y \in S : Live(logs[y]) \in Versions
  BY LogVersions
<1>2. \A y \in S : new[y] = <<Live(logs[y])>>
  BY DEF Rereads
<1>3. \A y \in S : /\ new[y] \in Log(Versions) /\ Live(new[y]) = Live(logs[y])
                   /\ Cached(new[y]) = Live(logs[y]) /\ Synced(new[y])
  BY <1>1, <1>2, LogRestart
<1>4. new \in [S -> Log(Versions)]
  BY <1>3 DEF Rereads
<1>5. \A y \in S : Len(new[y]) = 1 /\ new[y][1] = Live(logs[y])
  BY <1>2
<1> QED BY <1>3, <1>4, <1>5
=============================================================================

----------------------- MODULE ProviderGatewayProofs ------------------------
(***************************************************************************)
(* For every number of calls, connections and keys, every ceiling and      *)
(* every pool size: the daily ceiling is exceeded by one less than the     *)
(* calls served together at most; a retired key becomes usable only        *)
(* through a record put back from an outdated read; the vault and the      *)
(* pools agree, and the default exists, when no call is underway.          *)
(***************************************************************************)
EXTENDS ProviderGateway, FiniteSetTheorems, TLAPS

Pools == UNION {[S -> KeyStatuses] : S \in SUBSET Keys}

Operations == {"none", "generate", "stream", "create", "add", "remove",
               "rewrite", "delete", "prefer"}
Stages == {"free", "loaded", "route", "asking", "record", "put", "prefs", "prefer"}

CallRecords ==
    [op: Operations, at: Stages, connection: Connections \cup {None},
     keys: Pools, fresh: BOOLEAN, left: SUBSET Keys, single: BOOLEAN,
     tries: Nat, choice: Connections \cup {None}]

Types ==
    /\ connection \in [Connections -> Pools \cup {None}]
    /\ call \in [Calls -> CallRecords]
    /\ used \in Nat

(***************************************************************************)
(* The parts of the invariant.  What a call may do next is said of its     *)
(* record and of the store, so that the lemmas can be used for the record  *)
(* a step leaves behind.                                                   *)
(***************************************************************************)
Works(r) == r.at \in {"route", "asking", "record"}
Creates(r) == r.op = "create" /\ r.at = "put"

\* calls that passed the ceiling and whose usage record is still to come
Working == {c \in Calls : Works(call[c])}

CeilingLeft == used + Cardinality(Working) <= DailyCeiling + Cardinality(Calls) - 1

\* only identifiers that were generated are in use
Named(r, names) == r.connection \in names \cup {None} /\ DOMAIN r.keys \subseteq names

NamesAreKnown ==
    /\ \A n \in Existing : n \in known /\ DOMAIN connection[n] \subseteq known
    /\ \A c \in Calls : Named(call[c], known)

\* nobody else knows of a connection that is being created
Alone(c, r) ==
    Creates(r) => /\ r.connection \in Connections \ Existing
                  /\ \A d \in Calls \ {c} : call[d].connection # r.connection

CreatorsAreAlone == \A c \in Calls : Alone(c, call[c])

\* a call whose read is current has every retired key of the store retired
Agrees(r, pool) ==
    \A k \in DOMAIN pool : pool[k] = "invalid" =>
        /\ k \in DOMAIN r.keys => r.keys[k] = "invalid"
        /\ r.at = "asking" => k \notin r.left

Faithful(r, store) ==
    /\ r.fresh /\ ~Creates(r)
    /\ r.at \in {"loaded", "asking", "put"}
    /\ r.connection \in Connections /\ store[r.connection] # None
    => Agrees(r, store[r.connection])

ReadsAreFaithful == \A c \in Calls : Faithful(call[c], connection)

IInv == Types /\ CeilingLeft /\ NamesAreKnown /\ CreatorsAreAlone /\ ReadsAreFaithful

\* what RetiredKeysStayRetired says of a step
KeysStayRetired ==
    \A n \in Existing : \A k \in PoolOf(n) \cap PoolOf(n)' :
        connection[n][k] = "invalid" /\ connection'[n][k] # "invalid" => n \in stale'

\* what a step of c that leaves the record r behind must ensure
Fits(c, r) ==
    /\ r \in CallRecords
    /\ Works(r) => Works(call[c]) \/ WithinCeiling
    /\ \A d \in Calls \ {c} : Creates(call[d]) => r.connection # call[d].connection

-----------------------------------------------------------------------------
(* Pools and records.                                                      *)

LEMMA EmptyPool == <<>> \in Pools
<1>1. <<>> \in [{} -> KeyStatuses]
  OBVIOUS
<1>2. QED BY <1>1 DEF Pools

LEMMA PoolDomains ==
    ASSUME NEW pool \in Pools
    PROVE  /\ DOMAIN pool \subseteq Keys
           /\ \A k \in DOMAIN pool : pool[k] \in KeyStatuses
BY DEF Pools

LEMMA MarkedPools ==
    ASSUME NEW pool \in Pools, NEW k, NEW outcome
    PROVE  /\ Marked(pool, k, outcome) \in Pools
           /\ DOMAIN Marked(pool, k, outcome) = DOMAIN pool
           /\ \A j \in DOMAIN pool \ {k} : Marked(pool, k, outcome)[j] = pool[j]
BY DEF Pools, Marked, KeyStatuses

LEMMA GrownPools ==
    ASSUME NEW pool \in Pools, NEW k \in Keys
    PROVE  [j \in DOMAIN pool \cup {k} |-> IF j = k THEN "active" ELSE pool[j]] \in Pools
<1> DEFINE S == DOMAIN pool \cup {k}
           grown == [j \in S |-> IF j = k THEN "active" ELSE pool[j]]
<1>1. S \in SUBSET Keys
  BY PoolDomains
<1>2. grown \in [S -> KeyStatuses]
  BY PoolDomains DEF KeyStatuses
<1>3. QED BY <1>1, <1>2 DEF Pools

LEMMA ShrunkPools ==
    ASSUME NEW pool \in Pools, NEW k
    PROVE  LET shrunk == Restrict(pool, DOMAIN pool \ {k}) IN
           /\ shrunk \in Pools
           /\ DOMAIN shrunk = DOMAIN pool \ {k}
           /\ \A j \in DOMAIN shrunk : shrunk[j] = pool[j]
<1> DEFINE S == DOMAIN pool \ {k}
           shrunk == [j \in S |-> pool[j]]
<1>1. S \in SUBSET Keys
  BY PoolDomains
<1>2. shrunk \in [S -> KeyStatuses]
  BY PoolDomains
<1>3. shrunk \in Pools
  BY <1>1, <1>2 DEF Pools
<1>4. Restrict(pool, S) = shrunk
  BY DEF Restrict
<1>5. QED BY <1>3, <1>4

LEMMA FreeRecord ==
    /\ Free \in CallRecords
    /\ Free.at = "free" /\ Free.op = "none" /\ Free.connection = None
    /\ DOMAIN Free.keys = {} /\ Free.fresh
BY EmptyPool DEF Free, CallRecords, Operations, Stages

-----------------------------------------------------------------------------
(* The two ways a step changes the record of its call.                     *)

LEMMA GoChanges ==
    ASSUME Types, NEW c \in Calls, NEW r \in CallRecords, Go(c, r)
    PROVE  /\ call' \in [Calls -> CallRecords]
           /\ call'[c] = r
           /\ \A d \in Calls \ {c} : call'[d] = call[d]
BY DEF Types, Go

LEMMA OutdatedCalls ==
    ASSUME Types, NEW n, NEW pool, NEW d \in Calls
    PROVE  LET old == call[d]
               new == Outdated(n, pool)[d] IN
           /\ new \in CallRecords
           /\ new.at = old.at /\ new.op = old.op /\ new.connection = old.connection
           /\ new.keys = old.keys /\ new.left = old.left
           /\ new.fresh => old.fresh /\ old.connection # n
BY DEF Types, Outdated, CallRecords

LEMMA StoreChanges ==
    ASSUME Types, NEW c \in Calls, NEW r \in CallRecords,
           NEW n \in Connections \cup {None}, NEW pool \in Pools \cup {None},
           Store(c, n, pool, r)
    PROVE  /\ connection' \in [Connections -> Pools \cup {None}]
           /\ n \in Connections => connection'[n] = pool
           /\ \A m \in Connections \ {n} : connection'[m] = connection[m]
           /\ call' \in [Calls -> CallRecords]
           /\ call'[c] = r
           /\ \A d \in Calls \ {c} :
                LET old == call[d]
                    new == call'[d] IN
                /\ new.at = old.at /\ new.op = old.op /\ new.connection = old.connection
                /\ new.keys = old.keys /\ new.left = old.left
                /\ new.fresh => old.fresh /\ old.connection # n
<1> DEFINE out == Outdated(n, pool)
<1>1. out \in [Calls -> CallRecords]
  BY DEF Outdated, Types, CallRecords
<1>2. call' = [out EXCEPT ![c] = r]
  BY DEF Store
<1>3. \A d \in Calls \ {c} : call'[d] = Outdated(n, pool)[d]
  BY <1>1, <1>2
<1>4. /\ call' \in [Calls -> CallRecords]
      /\ call'[c] = r
  BY <1>1, <1>2
<1>5. /\ connection' \in [Connections -> Pools \cup {None}]
      /\ n \in Connections => connection'[n] = pool
      /\ \A m \in Connections \ {n} : connection'[m] = connection[m]
  BY DEF Store, Types
<1>6. QED BY <1>3, <1>4, <1>5, OutdatedCalls

(***************************************************************************)
(* The ceiling.                                                            *)
(***************************************************************************)
LEMMA Subsets ==
    ASSUME NEW S \in SUBSET Calls, NEW T \in SUBSET S
    PROVE  /\ Cardinality(S) \in Nat /\ Cardinality(T) \in Nat /\ Cardinality(Calls) \in Nat
           /\ Cardinality(T) <= Cardinality(S) /\ Cardinality(S) <= Cardinality(Calls)
BY GatewayAssumption, FS_Subset, FS_CardinalityType

LEMMA CeilingKept ==
    ASSUME Types, CeilingLeft, NEW c \in Calls,
           used' = used,
           \A d \in Calls \ {c} : Works(call[d])' => Works(call[d]),
           Works(call[c])' => Works(call[c]) \/ WithinCeiling
    PROVE  CeilingLeft'
<1>1. CASE WithinCeiling
  <2>1. Working' \in SUBSET Calls
    BY DEF Working
  <2>2. QED BY <1>1, <2>1, Subsets, GatewayAssumption
        DEF CeilingLeft, WithinCeiling, Types
<1>2. CASE ~WithinCeiling
  <2>1. Working \in SUBSET Calls /\ Working' \in SUBSET Working
    BY <1>2 DEF Working
  <2>2. QED BY <2>1, Subsets, GatewayAssumption DEF CeilingLeft, Types
<1>3. QED BY <1>1, <1>2


(***************************************************************************)
(* A step of one call keeps the invariant if the record it leaves behind   *)
(* fits, whether or not it puts the connection back.                       *)
(***************************************************************************)
LEMMA GoKeeps ==
    ASSUME IInv, NEW c \in Calls, NEW r, Go(c, r), Fits(c, r),
           connection' = connection, used' = used, stale' = stale,
           known \subseteq known',
           Named(r, known'), Alone(c, r), Faithful(r, connection)
    PROVE  IInv' /\ KeysStayRetired
<1> USE DEF IInv, Fits
<1>1. /\ call' \in [Calls -> CallRecords]
      /\ call'[c] = r
      /\ \A d \in Calls \ {c} : call'[d] = call[d]
  BY GoChanges
<1>2. Types'
  BY <1>1 DEF Types
<1>3. CeilingLeft'
  <2>1. \A d \in Calls \ {c} : Works(call[d])' => Works(call[d])
    BY <1>1 DEF Works
  <2>2. Works(call[c])' => Works(call[c]) \/ WithinCeiling
    BY <1>1 DEF Works
  <2>3. QED BY <2>1, <2>2, CeilingKept
<1>4. NamesAreKnown'
  BY <1>1 DEF NamesAreKnown, Named, Existing
<1>5. CreatorsAreAlone'
  BY <1>1 DEF CreatorsAreAlone, Alone, Creates, Existing
<1>6. ReadsAreFaithful'
  BY <1>1 DEF ReadsAreFaithful
<1>7. KeysStayRetired
  BY DEF KeysStayRetired, Existing
<1>8. QED BY <1>2, <1>3, <1>4, <1>5, <1>6, <1>7

LEMMA StoreKeeps ==
    ASSUME IInv, NEW c \in Calls, NEW r, Fits(c, r),
           NEW n, n = call[c].connection, NEW pool \in Pools \cup {None},
           Store(c, n, pool, r),
           used' = used, known' = known,
           pool # None => DOMAIN pool \subseteq known,
           call[c].fresh /\ n \in Existing /\ pool # None =>
              \A k \in DOMAIN connection[n] \cap DOMAIN pool :
                 connection[n][k] = "invalid" => pool[k] = "invalid",
           Named(r, known), ~Creates(r),
           r.fresh => r.at \notin {"loaded", "asking", "put"}
    PROVE  IInv' /\ KeysStayRetired
<1> USE DEF IInv, Fits
<1>n. n \in Connections \cup {None} /\ n \in known \cup {None} /\ None \notin Connections
  BY GatewayAssumption DEF Types, CallRecords, NamesAreKnown, Named
<1>1. /\ connection' \in [Connections -> Pools \cup {None}]
      /\ n \in Connections => connection'[n] = pool
      /\ \A m \in Connections \ {n} : connection'[m] = connection[m]
      /\ call' \in [Calls -> CallRecords]
      /\ call'[c] = r
  BY <1>n, StoreChanges
<1>2. \A d \in Calls \ {c} :
        LET old == call[d]
            new == call'[d] IN
        /\ new.at = old.at /\ new.op = old.op /\ new.connection = old.connection
        /\ new.keys = old.keys /\ new.left = old.left
        /\ new.fresh => old.fresh /\ old.connection # n
  BY <1>n, StoreChanges
<1>3. Types'
  BY <1>1 DEF Types
<1>4. CeilingLeft'
  <2>1. \A d \in Calls \ {c} : Works(call[d])' => Works(call[d])
    BY <1>2 DEF Works
  <2>2. Works(call[c])' => Works(call[c]) \/ WithinCeiling
    BY <1>1 DEF Works
  <2>3. QED BY <2>1, <2>2, CeilingKept
<1>5. NamesAreKnown'
  BY <1>n, <1>1, <1>2 DEF NamesAreKnown, Named, Existing
<1>6. CreatorsAreAlone'
  <2> SUFFICES ASSUME NEW d \in Calls, Creates(call[d])'
               PROVE  /\ call'[d].connection \in Connections \ Existing'
                      /\ \A e \in Calls \ {d} : call'[e].connection # call'[d].connection
    BY DEF CreatorsAreAlone, Alone
  <2>1. d # c
    BY <1>1 DEF Creates
  <2>2. Creates(call[d]) /\ call'[d].connection = call[d].connection
    BY <1>2, <2>1 DEF Creates
  <2>3. /\ call[d].connection \in Connections \ Existing
        /\ \A e \in Calls \ {d} : call[e].connection # call[d].connection
    BY <2>2 DEF CreatorsAreAlone, Alone
  <2>4. call[d].connection # n
    BY <2>1, <2>3
  <2>5. call'[d].connection \in Connections \ Existing'
    BY <1>1, <2>2, <2>3, <2>4 DEF Existing
  <2>6. \A e \in Calls \ {d} : call'[e].connection # call'[d].connection
    BY <1>1, <1>2, <2>1, <2>2, <2>3
  <2>7. QED BY <2>5, <2>6
<1>7. ReadsAreFaithful'
  <2> SUFFICES ASSUME NEW d \in Calls PROVE Faithful(call'[d], connection')
    BY DEF ReadsAreFaithful
  <2>1. CASE d = c
    BY <1>1, <2>1 DEF Faithful
  <2>2. CASE d # c
    <3>1. Faithful(call[d], connection)
      BY DEF ReadsAreFaithful
    <3>2. QED BY <1>1, <1>2, <2>2, <3>1 DEF Faithful, Creates, Agrees
  <2>3. QED BY <2>1, <2>2
<1>8. KeysStayRetired
  <2> SUFFICES ASSUME NEW m \in Existing, NEW k \in PoolOf(m) \cap PoolOf(m)',
                      connection[m][k] = "invalid", connection'[m][k] # "invalid"
               PROVE  m \in stale'
    BY DEF KeysStayRetired
  <2>1. m = n /\ n \in Connections
    BY <1>1 DEF Existing
  <2>2. n \in Existing /\ pool # None /\ k \in DOMAIN connection[n] \cap DOMAIN pool
    BY <1>1, <2>1 DEF PoolOf, Existing
  <2>3. ~call[c].fresh
    BY <1>1, <2>1, <2>2
  <2>4. QED BY <2>1, <2>3 DEF Store
<1>9. QED BY <1>3, <1>4, <1>5, <1>6, <1>7, <1>8

-----------------------------------------------------------------------------
(* One lemma for each action.                                              *)

Kept == IInv' /\ KeysStayRetired

LEMMA LeavesFree ==
    ASSUME IInv, NEW c \in Calls, Go(c, Free),
           UNCHANGED <<connection, used, known, stale>>
    PROVE  Kept
<1>1. \A d \in Calls : call[d] \in CallRecords
  BY DEF IInv, Types
<1>2. Fits(c, Free)
  <2>1. \A d \in Calls \ {c} : Creates(call[d]) => call[d].connection \in Connections
    BY DEF IInv, CreatorsAreAlone, Alone
  <2>2. QED BY <2>1, FreeRecord, GatewayAssumption DEF Fits, Works
<1>3. Named(Free, known') /\ Alone(c, Free) /\ Faithful(Free, connection)
  BY FreeRecord DEF Named, Alone, Creates, Faithful
<1>4. QED BY <1>2, <1>3, GoKeeps DEF Kept

\* a step that moves the call on without changing what it holds
LEMMA MovesOn ==
    ASSUME IInv, NEW c \in Calls, NEW r \in CallRecords, Go(c, r),
           UNCHANGED <<connection, used, stale>>, known \subseteq known',
           r.connection = None,
           DOMAIN r.keys \subseteq known',
           r.at \notin {"loaded", "asking", "put"},
           Works(r) => Works(call[c]) \/ WithinCeiling
    PROVE  Kept
<1>1. \A d \in Calls \ {c} : Creates(call[d]) => call[d].connection \in Connections
  BY DEF IInv, CreatorsAreAlone, Alone
<1>2. Fits(c, r)
  BY <1>1, GatewayAssumption DEF Fits
<1>3. Named(r, known') /\ Alone(c, r) /\ Faithful(r, connection)
  BY DEF Named, Alone, Creates, Faithful
<1>4. QED BY <1>2, <1>3, GoKeeps DEF Kept

LEMMA LoadKeeps ==
    ASSUME IInv, NEW c \in Calls, NEW op, NEW n \in Connections, Load(c, op, n)
    PROVE  Kept
<1> DEFINE r == [Free EXCEPT !.op = op, !.at = "loaded", !.connection = n,
                             !.keys = connection[n]]
<1>1. n \in Existing /\ connection[n] \in Pools \cup {None}
  BY DEF Load, IInv, Types
<1>2. r \in CallRecords /\ r.op = op /\ r.at = "loaded" /\ r.connection = n
      /\ r.keys = connection[n] /\ r.left = {}
  BY <1>1, FreeRecord DEF Load, Existing, CallRecords, Operations, Stages, Free
<1>3. op # "create" /\ Go(c, r) /\ UNCHANGED <<connection, used, known, stale>>
  BY DEF Load
<1> HIDE DEF r
<1>4. Fits(c, r)
  BY <1>1, <1>2 DEF Fits, Works, IInv, CreatorsAreAlone, Alone
<1>5. Named(r, known') /\ Alone(c, r) /\ Faithful(r, connection)
  BY <1>1, <1>2, <1>3 DEF Named, Alone, Creates, Faithful, Agrees, IInv, NamesAreKnown
<1>6. QED BY <1>3, <1>4, <1>5, GoKeeps DEF Kept

LEMMA BeginKeeps ==
    ASSUME IInv, NEW c \in Calls, NEW op, Begin(c, op)
    PROVE  Kept
<1> DEFINE r == [Free EXCEPT !.op = op, !.at = "route"]
<1>1. r \in CallRecords /\ r.at = "route" /\ r.connection = None /\ DOMAIN r.keys = {}
  BY FreeRecord DEF Begin, CallRecords, Operations, Stages
<1>2. Go(c, r) /\ WithinCeiling /\ UNCHANGED <<connection, used, known, stale>>
  BY DEF Begin
<1> HIDE DEF r
<1>3. QED BY <1>1, <1>2, MovesOn

LEMMA RouteKeeps ==
    ASSUME IInv, NEW c \in Calls, NEW n \in Connections, Route(c, n)
    PROVE  Kept
<1> DEFINE pool == connection[n]
           asks == [call[c] EXCEPT !.at = "asking", !.connection = n,
                      !.keys = connection[n], !.left = Usable(pool),
                      !.single = call[c].op = "generate" /\ Cardinality(Usable(pool)) = 1]
           ends == [Free EXCEPT !.op = "stream", !.at = "record"]
<1>1. n \in Existing /\ pool \in Pools /\ call[c] \in CallRecords /\ call[c].at = "route"
  BY DEF Route, IInv, Types, Existing
<1>2. UNCHANGED <<connection, used, known, stale>>
  BY DEF Route
<1>3. CASE Go(c, asks)
  <2>1. Usable(pool) \in SUBSET Keys
    BY <1>1, PoolDomains DEF Usable
  <2>2. asks \in CallRecords /\ asks.at = "asking" /\ asks.connection = n
        /\ asks.keys = pool /\ asks.left = Usable(pool)
    BY <1>1, <2>1 DEF CallRecords, Stages
  <2> HIDE DEF asks
  <2>3. Fits(c, asks)
    BY <1>1, <2>2 DEF Fits, Works, IInv, CreatorsAreAlone, Alone
  <2>4. Named(asks, known') /\ Alone(c, asks)
    BY <1>1, <1>2, <2>2 DEF Named, Alone, Creates, IInv, NamesAreKnown
  <2>5. Faithful(asks, connection)
    BY <2>2 DEF Faithful, Agrees, Usable
  <2>6. QED BY <1>2, <1>3, <2>3, <2>4, <2>5, GoKeeps DEF Kept
<1>4. CASE Go(c, ends)
  <2>1. ends \in CallRecords /\ ends.at = "record" /\ ends.connection = None
        /\ DOMAIN ends.keys = {}
    BY FreeRecord DEF CallRecords, Operations, Stages
  <2> HIDE DEF ends
  <2>2. Works(call[c])
    BY <1>1 DEF Works
  <2>3. QED BY <1>2, <1>4, <2>1, <2>2, MovesOn
<1>5. CASE Go(c, Free)
  BY <1>2, <1>5, LeavesFree
<1>6. Go(c, asks) \/ Go(c, ends) \/ Go(c, Free)
  BY DEF Route
<1>7. QED BY <1>3, <1>4, <1>5, <1>6

LEMMA LeavingKeeps ==
    ASSUME IInv, NEW c \in Calls, NoRoute(c) \/ Leave(c) \/ Refuse(c)
    PROVE  Kept
BY LeavesFree DEF NoRoute, Leave, Refuse

\* a put of the pool that the call has in hand
LEMMA StoresPool ==
    ASSUME IInv, NEW c \in Calls, NEW r \in CallRecords,
           NEW pool \in Pools \cup {None},
           Store(c, call[c].connection, pool, r),
           UNCHANGED <<used, known>>,
           r.connection \in {None, call[c].connection},
           DOMAIN r.keys \subseteq known,
           ~Creates(r),
           r.fresh => r.at \notin {"loaded", "asking", "put"},
           Works(r) => Works(call[c]),
           pool # None => DOMAIN pool \subseteq known,
           call[c].fresh /\ call[c].connection \in Existing /\ pool # None =>
              \A k \in DOMAIN connection[call[c].connection] \cap DOMAIN pool :
                 connection[call[c].connection][k] = "invalid" => pool[k] = "invalid"
    PROVE  Kept
<1>1. \A d \in Calls \ {c} : Creates(call[d]) =>
        call[d].connection \in Connections /\ call[d].connection # call[c].connection
  BY DEF IInv, CreatorsAreAlone, Alone
<1>2. Fits(c, r)
  BY <1>1, GatewayAssumption DEF Fits
<1>3. Named(r, known)
  BY DEF Named, IInv, NamesAreKnown
<1>4. QED BY <1>2, <1>3, StoreKeeps DEF Kept

LEMMA RecordsOfCalls ==
    ASSUME IInv, NEW c \in Calls
    PROVE  /\ call[c] \in CallRecords
           /\ call[c].keys \in Pools
           /\ DOMAIN call[c].keys \subseteq known
           /\ call[c].connection \in known \cup {None}
           /\ Alone(c, call[c]) /\ Faithful(call[c], connection)
BY DEF IInv, Types, CallRecords, NamesAreKnown, Named, CreatorsAreAlone, ReadsAreFaithful

Asks(r) == r.at = "asking"

\* the mark of an answer makes no retired key usable
LEMMA MarkedAgrees ==
    ASSUME IInv, NEW c \in Calls, NEW k, NEW outcome,
           Asks(call[c]), k \in call[c].left, call[c].fresh,
           call[c].connection \in Existing,
           NEW j \in DOMAIN connection[call[c].connection],
           connection[call[c].connection][j] = "invalid"
    PROVE  /\ j \in DOMAIN Marked(call[c].keys, k, outcome) =>
                 Marked(call[c].keys, k, outcome)[j] = "invalid"
           /\ j # k
<1>1. Agrees(call[c], connection[call[c].connection])
  BY RecordsOfCalls DEF Faithful, Creates, Existing, Asks
<1>2. QED BY <1>1, RecordsOfCalls, MarkedPools DEF Agrees, Asks

LEMMA GenerateKeeps ==
    ASSUME IInv, NEW c \in Calls, NEW k \in Keys, NEW outcome, Generate(c, k, outcome)
    PROVE  Kept
<1> DEFINE now  == call[c]
           pool == Marked(now.keys, k, outcome)
           left == IF now.single THEN now.left ELSE now.left \ {k}
           tries == IF now.single THEN now.tries + 1 ELSE now.tries
           asks == [now EXCEPT !.keys = pool, !.left = left, !.tries = tries]
           ends == [Free EXCEPT !.op = "generate", !.at = "record"]
<1>1. now \in CallRecords /\ pool \in Pools /\ DOMAIN pool = DOMAIN now.keys
  BY RecordsOfCalls, MarkedPools
<1>2. now.at = "asking" /\ now.op = "generate" /\ k \in now.left
      /\ Asks(now) /\ UNCHANGED <<used, known>>
  BY DEF Generate, Asks
<1>3. CASE Go(c, asks) /\ UNCHANGED <<connection, stale>>
  <2>0. left \in SUBSET Keys /\ left \subseteq now.left /\ tries \in Nat
    BY <1>1 DEF CallRecords
  <2> HIDE DEF left, tries
  <2>1. asks \in CallRecords /\ asks.at = now.at /\ asks.op = now.op
        /\ asks.connection = now.connection /\ asks.keys = pool
        /\ asks.left \subseteq now.left /\ asks.fresh = now.fresh
    BY <1>1, <2>0 DEF CallRecords
  <2> HIDE DEF asks, pool
  <2>2. \A d \in Calls \ {c} : Creates(call[d]) => now.connection # call[d].connection
    BY DEF IInv, CreatorsAreAlone, Alone
  <2>3. Fits(c, asks)
    BY <1>2, <2>1, <2>2 DEF Fits, Works
  <2>4. Named(asks, known') /\ Alone(c, asks)
    BY <1>1, <1>2, <2>1, RecordsOfCalls DEF Named, Alone, Creates
  <2>5. Faithful(asks, connection)
    <3> SUFFICES ASSUME asks.fresh, asks.connection \in Connections,
                        connection[asks.connection] # None
                 PROVE  Agrees(asks, connection[asks.connection])
      BY DEF Faithful
    <3>1. now.fresh /\ now.connection \in Existing
      BY <2>1 DEF Existing
    <3>2. Agrees(now, connection[now.connection])
      BY <1>2, <3>1, RecordsOfCalls DEF Faithful, Creates, Existing
    <3>3. ASSUME NEW j \in DOMAIN connection[now.connection],
                 connection[now.connection][j] = "invalid"
          PROVE  /\ j \in DOMAIN pool => pool[j] = "invalid"
                 /\ j \notin asks.left
      BY <1>2, <2>1, <3>1, <3>2, <3>3, MarkedAgrees DEF Agrees, pool
    <3>4. QED BY <2>1, <3>3 DEF Agrees
  <2>6. QED BY <1>2, <1>3, <2>3, <2>4, <2>5, GoKeeps DEF Kept
<1>4. CASE Store(c, now.connection, pool, ends)
  <2>1. ends \in CallRecords /\ ends.at = "record" /\ ends.connection = None
        /\ DOMAIN ends.keys = {}
    BY FreeRecord DEF CallRecords, Operations, Stages
  <2>2. ASSUME now.fresh, now.connection \in Existing,
               NEW j \in DOMAIN connection[now.connection] \cap DOMAIN pool,
               connection[now.connection][j] = "invalid"
        PROVE  pool[j] = "invalid"
    BY <1>2, <2>2, MarkedAgrees
  <2>3. DOMAIN pool \subseteq known
    BY <1>1, RecordsOfCalls
  <2> HIDE DEF ends, pool
  <2>4. QED BY <1>1, <1>2, <1>4, <2>1, <2>2, <2>3, StoresPool DEF Works, Creates
<1>5. QED BY <1>3, <1>4 DEF Generate

LEMMA StreamKeeps ==
    ASSUME IInv, NEW c \in Calls, NEW k \in Keys, NEW outcome, NEW started,
           Stream(c, k, outcome, started)
    PROVE  Kept
<1> DEFINE now  == call[c]
           pool == Marked(now.keys, k, outcome)
           ends == [Free EXCEPT !.op = "stream", !.at = "record"]
           next == [now EXCEPT !.left = @ \ {k}, !.fresh = FALSE]
<1>1. now \in CallRecords /\ pool \in Pools /\ DOMAIN pool = DOMAIN now.keys
      /\ \A j \in DOMAIN now.keys \ {k} : pool[j] = now.keys[j]
  BY RecordsOfCalls, MarkedPools
<1>2. now.at = "asking" /\ now.op = "stream" /\ k \in now.left
      /\ Asks(now) /\ UNCHANGED <<used, known>>
  BY DEF Stream, Asks
<1>3. ASSUME now.fresh, now.connection \in Existing,
             NEW j \in DOMAIN connection[now.connection] \cap DOMAIN pool,
             connection[now.connection][j] = "invalid"
      PROVE  pool[j] = "invalid"
  <2>1. Agrees(now, connection[now.connection])
    BY <1>2, <1>3, RecordsOfCalls DEF Faithful, Creates, Existing, Asks
  <2>2. j # k /\ now.keys[j] = "invalid"
    BY <1>1, <1>2, <1>3, <2>1 DEF Agrees, Asks
  <2> HIDE DEF pool
  <2>3. QED BY <1>1, <2>2
<1>4. DOMAIN pool \subseteq known /\ DOMAIN now.keys \subseteq known
  BY <1>1, RecordsOfCalls
<1>5. ends \in CallRecords /\ ends.at = "record" /\ ends.connection = None
      /\ DOMAIN ends.keys = {}
  BY FreeRecord DEF CallRecords, Operations, Stages
<1>6. next \in CallRecords /\ next.at = "asking" /\ next.op = "stream"
      /\ next.connection = now.connection /\ next.keys = now.keys /\ ~next.fresh
  BY <1>1, <1>2 DEF CallRecords
<1>7. Store(c, now.connection, pool, ends) \/ Store(c, now.connection, pool, next)
  BY DEF Stream
<1> HIDE DEF ends, next, pool
<1>8. CASE Store(c, now.connection, pool, ends)
  BY <1>1, <1>2, <1>3, <1>4, <1>5, <1>8, StoresPool DEF Works, Creates
<1>9. CASE Store(c, now.connection, pool, next)
  BY <1>1, <1>2, <1>3, <1>4, <1>6, <1>9, StoresPool DEF Works, Creates
<1>10. QED BY <1>7, <1>8, <1>9

LEMMA RecordKeeps ==
    ASSUME IInv, NEW c \in Calls, Record(c)
    PROVE  Kept
<1> USE DEF IInv
<1>1. /\ call' \in [Calls -> CallRecords]
      /\ call'[c] = Free
      /\ \A d \in Calls \ {c} : call'[d] = call[d]
  BY FreeRecord, GoChanges DEF Record
<1>2. call[c].at = "record" /\ used' = used + 1 /\ UNCHANGED <<connection, known, stale>>
  BY DEF Record
<1>3. Types'
  BY <1>1, <1>2 DEF Types
<1>4. CeilingLeft'
  <2>1. c \in Working /\ Working' = Working \ {c} /\ Working \in SUBSET Calls
    BY <1>1, <1>2, FreeRecord DEF Working, Works
  <2>2. IsFiniteSet(Working)
    BY <2>1, GatewayAssumption, FS_Subset
  <2>3. Cardinality(Working') = Cardinality(Working) - 1 /\ Cardinality(Working) \in Nat
    BY <2>1, <2>2, FS_RemoveElement, FS_CardinalityType
  <2>4. Cardinality(Calls) \in Nat
    BY GatewayAssumption, FS_CardinalityType
  <2>5. QED BY <1>2, <2>3, <2>4, GatewayAssumption DEF CeilingLeft, Types
<1>5. NamesAreKnown'
  BY <1>1, <1>2, FreeRecord DEF NamesAreKnown, Named, Existing
<1>6. CreatorsAreAlone'
  BY <1>1, <1>2, FreeRecord, GatewayAssumption
  DEF CreatorsAreAlone, Alone, Creates, Existing
<1>7. ReadsAreFaithful'
  BY <1>1, <1>2, FreeRecord DEF ReadsAreFaithful, Faithful
<1>8. KeysStayRetired
  BY <1>2 DEF KeysStayRetired, Existing
<1>9. QED BY <1>3, <1>4, <1>5, <1>6, <1>7, <1>8 DEF Kept

LEMMA CreateKeeps ==
    ASSUME IInv, NEW c \in Calls, NEW n \in Connections, NEW k \in Keys, NEW status,
           Create(c, n, k, status)
    PROVE  Kept
<1> DEFINE pool == [j \in {k} |-> status]
           r == [Free EXCEPT !.op = "create", !.at = "put", !.connection = n,
                             !.keys = pool]
<1>1. /\ n \notin known /\ known' = known \cup {n, k}
      /\ Go(c, r) /\ UNCHANGED <<connection, used, stale>>
      /\ status \in KeyStatuses
  BY DEF Create, Fresh, KeyStatuses
<1>2. pool \in Pools /\ DOMAIN pool = {k}
  <2>1. pool \in [{k} -> KeyStatuses] /\ {k} \in SUBSET Keys
    BY <1>1
  <2>2. QED BY <2>1 DEF Pools
<1> HIDE DEF pool
<1>3. r \in CallRecords /\ r.at = "put" /\ r.op = "create" /\ r.connection = n
      /\ r.keys = pool
  BY <1>2, FreeRecord DEF CallRecords, Operations, Stages
<1> HIDE DEF r
<1>4. n # None /\ n \notin Existing /\ \A d \in Calls : call[d].connection # n
  BY <1>1, GatewayAssumption, RecordsOfCalls DEF IInv, NamesAreKnown, Named
<1>5. Fits(c, r)
  BY <1>3, <1>4 DEF Fits, Works
<1>6. Named(r, known') /\ Alone(c, r) /\ Faithful(r, connection)
  BY <1>1, <1>2, <1>3, <1>4 DEF Named, Alone, Faithful, Creates
<1>7. QED BY <1>1, <1>5, <1>6, GoKeeps DEF Kept

(***************************************************************************)
(* addKey, removeKey and deleteConnection change the pool they hold.       *)
(***************************************************************************)
LEMMA HoldsPool ==
    ASSUME IInv, NEW c \in Calls, NEW r \in CallRecords, Go(c, r),
           UNCHANGED <<connection, used, stale>>, known \subseteq known',
           call[c].at = "loaded", call[c].op # "create",
           r.at \in {"loaded", "put"},
           r.op = call[c].op, r.connection = call[c].connection,
           r.fresh = call[c].fresh,
           DOMAIN r.keys \subseteq known',
           \A k \in DOMAIN r.keys :
              k \in known => k \in DOMAIN call[c].keys /\ r.keys[k] = call[c].keys[k]
    PROVE  Kept
<1>1. Fits(c, r)
  BY DEF Fits, Works, IInv, CreatorsAreAlone, Alone
<1>2. Named(r, known') /\ Alone(c, r)
  BY RecordsOfCalls DEF Named, Alone, Creates
<1>3. Faithful(r, connection)
  <2> SUFFICES ASSUME r.fresh, r.connection \in Connections,
                      connection[r.connection] # None
               PROVE  Agrees(r, connection[r.connection])
    BY DEF Faithful
  <2>1. Agrees(call[c], connection[r.connection])
    BY RecordsOfCalls DEF Faithful, Creates
  <2>2. DOMAIN connection[r.connection] \subseteq known
    BY DEF IInv, NamesAreKnown, Existing
  <2>3. QED BY <2>1, <2>2 DEF Agrees
<1>4. QED BY <1>1, <1>2, <1>3, GoKeeps DEF Kept

LEMMA AddKeyKeeps ==
    ASSUME IInv, NEW c \in Calls, NEW k \in Keys, AddKey(c, k)
    PROVE  Kept
<1> DEFINE pool == call[c].keys
           grown == [j \in DOMAIN pool \cup {k} |-> IF j = k THEN "active" ELSE pool[j]]
           r == [call[c] EXCEPT !.at = "put", !.keys = grown]
<1>1. /\ call[c].at = "loaded" /\ call[c].op = "add" /\ k \notin known
      /\ known' = known \cup {k} /\ Go(c, r) /\ UNCHANGED <<connection, used, stale>>
  BY DEF AddKey, Fresh
<1>2. grown \in Pools
  BY RecordsOfCalls, GrownPools
<1>3. /\ DOMAIN grown \subseteq known'
      /\ \A j \in DOMAIN grown : j \in known => j \in DOMAIN pool /\ grown[j] = pool[j]
  <2>1. DOMAIN pool \subseteq known
    BY RecordsOfCalls
  <2>2. DOMAIN grown = DOMAIN pool \cup {k}
    OBVIOUS
  <2>3. \A j \in DOMAIN pool : j # k => grown[j] = pool[j]
    OBVIOUS
  <2> HIDE DEF grown, pool, r
  <2>4. QED BY <1>1, <2>1, <2>2, <2>3
<1> HIDE DEF grown
<1>4. r \in CallRecords /\ r.at = "put" /\ r.op = call[c].op /\ r.keys = grown
      /\ r.connection = call[c].connection /\ r.fresh = call[c].fresh
  BY <1>2, RecordsOfCalls DEF CallRecords, Stages
<1> HIDE DEF r
<1>5. QED BY <1>1, <1>3, <1>4, HoldsPool

LEMMA ShrunkKeeps ==
    ASSUME IInv, NEW c \in Calls, NEW k, NEW at \in {"loaded", "put"},
           call[c].at = "loaded", call[c].op # "create",
           Go(c, [call[c] EXCEPT !.at = at,
                     !.keys = Restrict(call[c].keys, DOMAIN call[c].keys \ {k})]),
           UNCHANGED <<connection, used, known, stale>>
    PROVE  Kept
<1> DEFINE shrunk == Restrict(call[c].keys, DOMAIN call[c].keys \ {k})
           r == [call[c] EXCEPT !.at = at, !.keys = shrunk]
<1>1. /\ shrunk \in Pools /\ DOMAIN shrunk \subseteq DOMAIN call[c].keys
      /\ \A j \in DOMAIN shrunk : shrunk[j] = call[c].keys[j]
  <2>1. call[c].keys \in Pools
    BY RecordsOfCalls
  <2>2. QED BY <2>1, ShrunkPools
<1> HIDE DEF shrunk
<1>2. r \in CallRecords /\ r.at = at /\ r.op = call[c].op /\ r.keys = shrunk
      /\ r.connection = call[c].connection /\ r.fresh = call[c].fresh
  BY <1>1, RecordsOfCalls DEF CallRecords, Stages
<1>3. Go(c, r)
  BY DEF shrunk
<1> HIDE DEF r
<1>4. QED BY <1>1, <1>2, <1>3, RecordsOfCalls, HoldsPool

LEMMA RemoveKeyKeeps ==
    ASSUME IInv, NEW c \in Calls, NEW k, RemoveKey(c, k)
    PROVE  Kept
<1>1. \E at \in {"loaded", "put"} :
        Go(c, [call[c] EXCEPT !.at = at,
                 !.keys = Restrict(call[c].keys, DOMAIN call[c].keys \ {k})])
  BY DEF RemoveKey
<1>2. /\ call[c].at = "loaded" /\ call[c].op # "create"
      /\ UNCHANGED <<connection, used, known, stale>>
  BY DEF RemoveKey
<1>3. QED BY <1>1, <1>2, ShrunkKeeps

LEMMA DropSecretKeeps ==
    ASSUME IInv, NEW c \in Calls, NEW k, DropSecret(c, k)
    PROVE  Kept
<1>1. [call[c] EXCEPT !.keys = Restrict(@, DOMAIN @ \ {k})] =
      [call[c] EXCEPT !.at = call[c].at,
         !.keys = Restrict(call[c].keys, DOMAIN call[c].keys \ {k})]
  BY RecordsOfCalls DEF CallRecords
<1>2. \E at \in {"loaded", "put"} :
        Go(c, [call[c] EXCEPT !.at = at,
                 !.keys = Restrict(call[c].keys, DOMAIN call[c].keys \ {k})])
  BY <1>1 DEF DropSecret
<1>3. /\ call[c].at = "loaded" /\ call[c].op # "create"
      /\ UNCHANGED <<connection, used, known, stale>>
  BY DEF DropSecret
<1>4. QED BY <1>2, <1>3, ShrunkKeeps

\* a put of the pool the call read
LEMMA PutsBack ==
    ASSUME IInv, NEW c \in Calls, NEW r \in CallRecords,
           Store(c, call[c].connection, call[c].keys, r),
           call[c].at \in {"loaded", "put"},
           UNCHANGED <<used, known>>,
           r.connection \in {None, call[c].connection}, DOMAIN r.keys = {},
           r.at \in {"free", "prefs"}
    PROVE  Kept
<1>1. call[c].keys \in Pools \cup {None} /\ DOMAIN call[c].keys \subseteq known
  BY RecordsOfCalls
<1>2. ASSUME call[c].fresh, call[c].connection \in Existing,
             NEW k \in DOMAIN connection[call[c].connection] \cap DOMAIN call[c].keys,
             connection[call[c].connection][k] = "invalid"
      PROVE  call[c].keys[k] = "invalid"
  <2>1. ~Creates(call[c])
    BY <1>2, RecordsOfCalls DEF Alone
  <2>2. QED BY <1>2, <2>1, RecordsOfCalls DEF Faithful, Agrees, Existing
<1>3. ~Creates(r) /\ ~Works(r)
  BY DEF Creates, Works
<1>4. QED BY <1>1, <1>2, <1>3, StoresPool

LEMMA RewriteKeeps ==
    ASSUME IInv, NEW c \in Calls, Rewrite(c)
    PROVE  Kept
<1>1. Store(c, call[c].connection, call[c].keys, Free) /\ UNCHANGED <<used, known>>
      /\ call[c].at \in {"loaded", "put"}
  BY DEF Rewrite
<1>2. QED BY <1>1, FreeRecord, PutsBack

LEMMA PutKeeps ==
    ASSUME IInv, NEW c \in Calls, Put(c)
    PROVE  Kept
<1> DEFINE made == [Free EXCEPT !.op = "create", !.at = "prefs",
                                !.connection = call[c].connection]
<1>1. made \in CallRecords /\ made.at = "prefs" /\ DOMAIN made.keys = {}
      /\ made.connection = call[c].connection
  BY FreeRecord, RecordsOfCalls DEF CallRecords, Operations, Stages
<1>2. /\ call[c].at \in {"loaded", "put"} /\ UNCHANGED <<used, known>>
      /\ \/ Store(c, call[c].connection, call[c].keys, made)
         \/ Store(c, call[c].connection, call[c].keys, Free)
  BY DEF Put
<1> HIDE DEF made
<1>3. made.at \in {"free", "prefs"} /\ Free.at \in {"free", "prefs"}
  BY <1>1, FreeRecord
<1>4. QED BY <1>1, <1>2, <1>3, FreeRecord, PutsBack

LEMMA EraseKeeps ==
    ASSUME IInv, NEW c \in Calls, Erase(c)
    PROVE  Kept
<1> DEFINE r == [Free EXCEPT !.op = "delete", !.at = "prefs",
                             !.connection = call[c].connection]
<1>1. /\ Store(c, call[c].connection, None, r) /\ UNCHANGED <<used, known>>
  BY DEF Erase
<1>2. r \in CallRecords /\ r.at = "prefs" /\ DOMAIN r.keys = {}
      /\ r.connection = call[c].connection
  BY FreeRecord, RecordsOfCalls DEF CallRecords, Operations, Stages
<1> HIDE DEF r
<1>3. ~Creates(r) /\ ~Works(r) /\ r.at \notin {"loaded", "asking", "put"}
  BY <1>2 DEF Creates, Works
<1>4. None \in Pools \cup {None}
  OBVIOUS
<1>5. QED BY <1>1, <1>2, <1>3, <1>4, StoresPool

LEMMA ReadPreferencesKeeps ==
    ASSUME IInv, NEW c \in Calls, NEW choice \in Connections \cup {None},
           ReadPreferences(c, choice)
    PROVE  Kept
<1> DEFINE prefer == [Free EXCEPT !.op = call[c].op, !.at = "prefer",
                                  !.choice = choice, !.fresh = call[c].fresh]
<1>1. prefer \in CallRecords /\ prefer.at = "prefer" /\ DOMAIN prefer.keys = {}
      /\ prefer.connection = None
  BY FreeRecord, RecordsOfCalls DEF CallRecords, Operations, Stages
<1>2. /\ Go(c, Free) \/ Go(c, prefer)
      /\ UNCHANGED <<connection, used, known, stale>>
  BY DEF ReadPreferences
<1> HIDE DEF prefer
<1>3. ~Works(prefer) /\ prefer.at \notin {"loaded", "asking", "put"}
  BY <1>1 DEF Works
<1>4. QED BY <1>1, <1>2, <1>3, LeavesFree, MovesOn

LEMMA PreferKeeps ==
    ASSUME IInv, NEW c \in Calls, NEW choice \in Connections \cup {None},
           Prefer(c, choice)
    PROVE  Kept
<1> DEFINE r == [Free EXCEPT !.op = "prefer", !.at = "prefer", !.choice = choice]
<1>1. r \in CallRecords /\ r.at = "prefer" /\ DOMAIN r.keys = {} /\ r.connection = None
  BY FreeRecord DEF CallRecords, Operations, Stages
<1>2. Go(c, r) /\ UNCHANGED <<connection, used, known, stale>>
  BY DEF Prefer
<1> HIDE DEF r
<1>3. ~Works(r) /\ r.at \notin {"loaded", "asking", "put"}
  BY <1>1 DEF Works
<1>4. QED BY <1>1, <1>2, <1>3, MovesOn

(***************************************************************************)
(* The two steps that change records or connections otherwise.             *)
(***************************************************************************)
LEMMA WritePreferencesKeeps ==
    ASSUME IInv, NEW c \in Calls, WritePreferences(c)
    PROVE  Kept
<1> USE DEF IInv
<1>1. UNCHANGED <<connection, used, known, stale>>
  BY DEF WritePreferences
<1>2. call' \in [Calls -> CallRecords]
  <2>1. \A d \in Calls : [call[d] EXCEPT !.fresh = FALSE] \in CallRecords
    BY DEF Types, CallRecords
  <2>2. QED BY <2>1, FreeRecord DEF WritePreferences, Types
<1>3. \A d \in Calls :
        \/ call'[d] = Free
        \/ /\ call'[d].at = call[d].at /\ call'[d].op = call[d].op
           /\ call'[d].connection = call[d].connection
           /\ call'[d].keys = call[d].keys /\ call'[d].left = call[d].left
           /\ call'[d].fresh => call[d].fresh
  BY DEF WritePreferences, Types, CallRecords
<1>4. Types'
  BY <1>1, <1>2 DEF Types
<1>5. CeilingLeft'
  <2>1. \A d \in Calls : Works(call[d])' => Works(call[d])
    BY <1>3, FreeRecord DEF Works
  <2>2. QED BY <1>1, <2>1, CeilingKept
<1>6. NamesAreKnown'
  BY <1>1, <1>3, FreeRecord DEF NamesAreKnown, Named, Existing
<1>7. CreatorsAreAlone'
  BY <1>1, <1>3, FreeRecord, GatewayAssumption
  DEF CreatorsAreAlone, Alone, Creates, Existing
<1>8. ReadsAreFaithful'
  <2> SUFFICES ASSUME NEW d \in Calls PROVE Faithful(call'[d], connection)
    BY <1>1 DEF ReadsAreFaithful
  <2>1. CASE call'[d] = Free
    BY <2>1, FreeRecord DEF Faithful
  <2>2. CASE call'[d] # Free
    <3>1. Faithful(call[d], connection)
      BY DEF ReadsAreFaithful
    <3>2. QED BY <1>3, <2>2, <3>1 DEF Faithful, Creates, Agrees
  <2>3. QED BY <2>1, <2>2
<1>9. KeysStayRetired
  BY <1>1 DEF KeysStayRetired, Existing
<1>10. QED BY <1>4, <1>5, <1>6, <1>7, <1>8, <1>9 DEF Kept

LEMMA RestKeeps ==
    ASSUME IInv, NEW n \in Connections, NEW k \in Keys, Rest(n, k)
    PROVE  Kept
<1> DEFINE pool == [connection[n] EXCEPT ![k] = "rested"]
<1> USE DEF IInv
<1>1. n \in Existing /\ k \in DOMAIN connection[n] /\ connection[n][k] = "cooling"
      /\ UNCHANGED <<used, call, known, stale>>
  BY DEF Rest, PoolOf
<1>2. connection[n] \in Pools
  BY <1>1 DEF Types, Existing
<1>3. pool \in Pools /\ DOMAIN pool = DOMAIN connection[n] /\ pool[k] = "rested"
      /\ \A j \in DOMAIN pool \ {k} : pool[j] = connection[n][j]
  BY <1>1, <1>2 DEF Pools, KeyStatuses
<1>4. connection' = [connection EXCEPT ![n] = pool]
  BY DEF Rest
<1> HIDE DEF pool
<1>5. connection' \in [Connections -> Pools \cup {None}] /\ connection'[n] = pool
      /\ \A m \in Connections \ {n} : connection'[m] = connection[m]
  BY <1>3, <1>4 DEF Types
<1>6. Types'
  BY <1>1, <1>5 DEF Types
<1>7. CeilingLeft'
  BY <1>1 DEF CeilingLeft, Working, Works
<1>8. NamesAreKnown'
  BY <1>1, <1>3, <1>5 DEF NamesAreKnown, Named, Existing
<1>9. CreatorsAreAlone'
  BY <1>1, <1>5 DEF CreatorsAreAlone, Alone, Creates, Existing
<1>10. ReadsAreFaithful'
  <2> SUFFICES ASSUME NEW d \in Calls PROVE Faithful(call[d], connection')
    BY <1>1 DEF ReadsAreFaithful
  <2>1. Faithful(call[d], connection)
    BY DEF ReadsAreFaithful
  <2>2. QED BY <1>1, <1>3, <1>5, <2>1 DEF Faithful, Agrees, Existing
<1>11. KeysStayRetired
  BY <1>1, <1>3, <1>5 DEF KeysStayRetired, Existing, PoolOf
<1>12. QED BY <1>6, <1>7, <1>8, <1>9, <1>10, <1>11 DEF Kept

-----------------------------------------------------------------------------
(***************************************************************************)
(* Secrets.  A key on offer without its secret has a call that will put a  *)
(* record without it, and a secret that is on no offer one that will put   *)
(* a record with it.                                                       *)
(***************************************************************************)
Holds(r) == r.at \in {"loaded", "asking", "put"}

\* the call has dropped the secret of k, and will put n back without k
Removes(r, n, k) ==
    /\ r.connection = n /\ k \notin DOMAIN r.keys
    /\ \/ r.op = "remove" /\ r.at = "put"
       \/ r.op = "delete" /\ r.at = "loaded"

Removed(others, n, k) == \E c \in others : Removes(call[c], n, k)

OffersAreBacked ==
    \A n \in Existing \ stale : \A k \in DOMAIN connection[n] \ vault : Removed(Calls, n, k)

\* so is what a current call would put back
HoldsAreBacked ==
    \A d \in Calls :
        Holds(call[d]) /\ call[d].fresh /\ call[d].connection \notin stale =>
            \A k \in DOMAIN call[d].keys \ vault :
                Removed(Calls \ {d}, call[d].connection, k)

KeysHaveOneOwner ==
    /\ \A c, d \in Calls : DOMAIN call[c].keys \cap DOMAIN call[d].keys # {} =>
         call[c].connection = call[d].connection
    /\ \A c \in Calls, n \in Existing : DOMAIN call[c].keys \cap DOMAIN connection[n] # {} =>
         call[c].connection = n
    /\ \A m, n \in Existing : DOMAIN connection[m] \cap DOMAIN connection[n] # {} => m = n

HoldersHaveAConnection ==
    \A c \in Calls : Holds(call[c]) => call[c].connection \in Connections

SecretsAreUsed ==
    stale = {} => \A k \in vault :
        \/ \E n \in Existing : k \in DOMAIN connection[n]
        \/ \E c \in Calls : call[c].at = "put" /\ k \in DOMAIN call[c].keys

\* a current call knows of every secret that belongs to its connection
SecretsAreHeld ==
    stale = {} => \A c \in Calls :
        Holds(call[c]) /\ call[c].fresh /\ call[c].connection \in Existing =>
            DOMAIN connection[call[c].connection] \cap vault \subseteq DOMAIN call[c].keys

VaultInv ==
    /\ OffersAreBacked /\ HoldsAreBacked /\ KeysHaveOneOwner
    /\ HoldersHaveAConnection /\ SecretsAreUsed /\ SecretsAreHeld

(***************************************************************************)
(* The default.  One that is gone has a call that is about to replace it.  *)
(***************************************************************************)
Good(n) == n \in Existing \cup {None}

Replaces(r) ==
    \/ r.at = "prefs" /\ r.op = "delete" /\ r.connection = default
    \/ r.at = "prefer" /\ (r.fresh => Good(r.choice))

DefaultIsReplaced == ~crossed /\ ~Good(default) => \E c \in Calls : Replaces(call[c])

\* a current choice exists, or is the default as it stands
Chooses(r) ==
    /\ r.at = "prefer" /\ r.fresh => Good(r.choice) \/ r.choice = default
    /\ r.at = "prefs" /\ r.op = "create" /\ r.fresh => r.connection \in Existing

ChoicesAreCurrent == \A c \in Calls : Chooses(call[c])

PreferenceInv == DefaultIsReplaced /\ ChoicesAreCurrent

\* the other calls stand where they stood, with the keys they held
OthersStand(c) ==
    \A d \in Calls \ {c} :
        /\ call'[d].at = call[d].at /\ call'[d].op = call[d].op
        /\ call'[d].connection = call[d].connection
        /\ call'[d].keys = call[d].keys
        /\ call'[d].fresh => call[d].fresh

LEMMA GoStands ==
    ASSUME IInv, NEW c \in Calls, NEW r \in CallRecords, Go(c, r)
    PROVE  call'[c] = r /\ OthersStand(c)
BY GoChanges DEF IInv, OthersStand

LEMMA KnownKeys ==
    ASSUME IInv
    PROVE  /\ \A d \in Calls : DOMAIN call[d].keys \subseteq known
           /\ \A n \in Existing : DOMAIN connection[n] \subseteq known
BY DEF IInv, NamesAreKnown, Named

LEMMA RemovalsStand ==
    ASSUME NEW c \in Calls, OthersStand(c), NEW d \in Calls \ {c}, NEW n, NEW k
    PROVE  Removes(call'[d], n, k) <=> Removes(call[d], n, k)
BY DEF OthersStand, Removes

\* A step of c that puts no connection back.
LEMMA GoKeepsVault ==
    ASSUME IInv, VaultInv, NEW c \in Calls, NEW r, call'[c] = r, OthersStand(c),
           UNCHANGED <<connection, stale>>,
           call[c].at # "put",
           \A n, k : Removes(call[c], n, k) => Removes(r, n, k),
           \A k \in vault \ vault' :
              /\ Removes(r, call[c].connection, k)
              /\ k \in DOMAIN call[c].keys,
           \A k \in vault' \ vault : k \notin known /\ r.at = "put" /\ k \in DOMAIN r.keys,
           \A k \in DOMAIN r.keys :
              \/ k \notin known
              \/ r.connection = call[c].connection /\ k \in DOMAIN call[c].keys
              \/ r.connection \in Existing /\ k \in DOMAIN connection[r.connection],
           Holds(r) => r.connection \in Connections,
           Holds(r) /\ r.fresh /\ r.connection \notin stale =>
              \A k \in DOMAIN r.keys \ vault' : Removed(Calls \ {c}, r.connection, k),
           stale = {} /\ Holds(r) /\ r.fresh /\ r.connection \in Existing =>
              DOMAIN connection[r.connection] \cap vault' \subseteq DOMAIN r.keys
    PROVE  VaultInv'
<1> USE DEF VaultInv
<1>1. /\ Existing' = Existing
      /\ \A d \in Calls : \A n, k : Removes(call[d], n, k) => Removes(call'[d], n, k)
  BY RemovalsStand DEF Existing
<1>2. OffersAreBacked'
  <2> SUFFICES ASSUME NEW n \in Existing \ stale, NEW k \in DOMAIN connection[n] \ vault'
               PROVE  \E d \in Calls : Removes(call'[d], n, k)
    BY <1>1 DEF OffersAreBacked, Removed
  <2>1. CASE k \in vault
    <3>1. call[c].connection = n
      BY <2>1 DEF KeysHaveOneOwner
    <3>2. QED BY <2>1, <3>1
  <2>2. CASE k \notin vault
    <3>1. PICK d \in Calls : Removes(call[d], n, k)
      BY <2>2 DEF OffersAreBacked, Removed
    <3>2. QED BY <1>1, <3>1
  <2>3. QED BY <2>1, <2>2
<1>3. HoldsAreBacked'
  <2> SUFFICES ASSUME NEW d \in Calls, Holds(call'[d]), call'[d].fresh,
                      call'[d].connection \notin stale,
                      NEW k \in DOMAIN call'[d].keys \ vault'
               PROVE  \E e \in Calls \ {d} : Removes(call'[e], call'[d].connection, k)
    BY DEF HoldsAreBacked, Removed, Holds
  <2>1. CASE d = c
    <3>1. PICK e \in Calls \ {c} : Removes(call[e], r.connection, k)
      BY <2>1 DEF Removed
    <3>2. QED BY <1>1, <2>1, <3>1
  <2>2. CASE d # c /\ k \in vault
    <3>1. k \in DOMAIN call[d].keys /\ call'[d].connection = call[d].connection
      BY <2>2 DEF OthersStand
    <3>2. call[c].connection = call[d].connection
      BY <2>2, <3>1 DEF KeysHaveOneOwner
    <3>3. QED BY <2>2, <3>1, <3>2
  <2>3. CASE d # c /\ k \notin vault
    <3>1. /\ Holds(call[d]) /\ call[d].fresh /\ call[d].connection \notin stale
          /\ k \in DOMAIN call[d].keys /\ call'[d].connection = call[d].connection
      BY <2>3 DEF OthersStand, Holds
    <3>2. PICK e \in Calls \ {d} : Removes(call[e], call[d].connection, k)
      BY <2>3, <3>1 DEF HoldsAreBacked, Removed
    <3>3. QED BY <1>1, <3>1, <3>2
  <2>4. QED BY <2>1, <2>2, <2>3
<1>4. KeysHaveOneOwner'
  <2>1. ASSUME NEW d \in Calls \ {c}, NEW k \in DOMAIN r.keys \cap DOMAIN call[d].keys
        PROVE  r.connection = call[d].connection
    BY <2>1, KnownKeys DEF KeysHaveOneOwner
  <2>2. ASSUME NEW n \in Existing, NEW k \in DOMAIN r.keys \cap DOMAIN connection[n]
        PROVE  r.connection = n
    BY <2>2, KnownKeys DEF KeysHaveOneOwner
  <2>3. ASSUME NEW a \in Calls, NEW b \in Calls,
               NEW k \in DOMAIN call'[a].keys \cap DOMAIN call'[b].keys
        PROVE  call'[a].connection = call'[b].connection
    BY <2>1, <2>3 DEF KeysHaveOneOwner, OthersStand
  <2>4. ASSUME NEW d \in Calls, NEW n \in Existing,
               NEW k \in DOMAIN call'[d].keys \cap DOMAIN connection[n]
        PROVE  call'[d].connection = n
    BY <2>2, <2>4 DEF KeysHaveOneOwner, OthersStand
  <2>5. \A m, n \in Existing : DOMAIN connection[m] \cap DOMAIN connection[n] # {} => m = n
    BY DEF KeysHaveOneOwner
  <2>6. QED BY <1>1, <2>3, <2>4, <2>5 DEF KeysHaveOneOwner
<1>5. HoldersHaveAConnection'
  BY DEF HoldersHaveAConnection, Holds, OthersStand
<1>6. SecretsAreUsed'
  <2> SUFFICES ASSUME stale = {}, NEW k \in vault'
               PROVE  \/ \E n \in Existing : k \in DOMAIN connection[n]
                      \/ \E d \in Calls : call'[d].at = "put" /\ k \in DOMAIN call'[d].keys
    BY <1>1 DEF SecretsAreUsed
  <2>1. CASE k \in vault
    <3>1. \/ \E n \in Existing : k \in DOMAIN connection[n]
          \/ \E d \in Calls : call[d].at = "put" /\ k \in DOMAIN call[d].keys
      BY <2>1 DEF SecretsAreUsed
    <3>2. QED BY <3>1 DEF OthersStand
  <2>2. CASE k \notin vault
    BY <2>2
  <2>3. QED BY <2>1, <2>2
<1>7. SecretsAreHeld'
  <2> SUFFICES ASSUME stale = {}, NEW d \in Calls, Holds(call'[d]), call'[d].fresh,
                      call'[d].connection \in Existing,
                      NEW k \in DOMAIN connection[call'[d].connection] \cap vault'
               PROVE  k \in DOMAIN call'[d].keys
    BY <1>1 DEF SecretsAreHeld, Holds
  <2>1. CASE d = c
    BY <2>1
  <2>2. CASE d # c
    <3>1. /\ Holds(call[d]) /\ call[d].fresh
          /\ call'[d].connection = call[d].connection /\ call'[d].keys = call[d].keys
      BY <2>2 DEF OthersStand, Holds
    <3>2. k \in vault
      BY KnownKeys
    <3>3. QED BY <3>1, <3>2 DEF SecretsAreHeld
  <2>3. QED BY <2>1, <2>2
<1>8. QED BY <1>2, <1>3, <1>4, <1>5, <1>6, <1>7

\* A step of c that puts a connection back with the keys it held, or deletes one
\* whose keys it has dropped.
LEMMA StoreKeepsVault ==
    ASSUME IInv, VaultInv, NEW c \in Calls, NEW r \in CallRecords,
           Holds(call[c]), NEW n, n = call[c].connection,
           NEW pool, Store(c, n, pool, r), vault' = vault,
           \/ pool \in Pools /\ DOMAIN pool = DOMAIN call[c].keys
           \/ pool = None /\ DOMAIN call[c].keys = {},
           DOMAIN r.keys \subseteq DOMAIN call[c].keys,
           DOMAIN r.keys # {} => r.connection = n,
           Holds(r) => ~r.fresh /\ r.connection = n
    PROVE  VaultInv'
<1> USE DEF VaultInv
<1>0. n \in Connections /\ n \in Connections \cup {None} /\ Types /\ pool \in Pools \cup {None}
  BY DEF HoldersHaveAConnection, IInv
<1>1. /\ connection'[n] = pool
      /\ \A m \in Connections \ {n} : connection'[m] = connection[m]
      /\ call'[c] = r
      /\ OthersStand(c)
      /\ \A d \in Calls \ {c} : call'[d].fresh => call[d].connection # n
  BY <1>0, StoreChanges DEF OthersStand
<1>2. /\ stale \subseteq stale'
      /\ n \notin stale' => call[c].fresh /\ n \notin stale
      /\ stale' = {} => call[c].fresh /\ stale = {}
  BY DEF Store
<1>3. /\ \A m \in Existing' \ {n} : m \in Existing /\ connection'[m] = connection[m]
      /\ \A m \in Existing \ {n} : m \in Existing'
      /\ n \in Existing' => DOMAIN connection'[n] = DOMAIN call[c].keys
      /\ DOMAIN call[c].keys # {} => n \in Existing'
  <2>1. pool \in Pools => pool # None
    BY NoneAssumption DEF Pools
  <2>2. QED BY <1>0, <1>1, <2>1 DEF Existing
<1>4. OffersAreBacked'
  <2> SUFFICES ASSUME NEW m \in Existing' \ stale', NEW k \in DOMAIN connection'[m] \ vault
               PROVE  \E d \in Calls : Removes(call'[d], m, k)
    BY DEF OffersAreBacked, Removed
  <2>1. CASE m = n
    <3>1. k \in DOMAIN call[c].keys \ vault /\ call[c].fresh /\ n \notin stale
      BY <1>2, <1>3, <2>1
    <3>2. PICK d \in Calls \ {c} : Removes(call[d], n, k)
      BY <3>1 DEF HoldsAreBacked, Removed
    <3>3. QED BY <1>1, <2>1, <3>2, RemovalsStand
  <2>2. CASE m # n
    <3>1. PICK d \in Calls : Removes(call[d], m, k)
      BY <1>2, <1>3, <2>2 DEF OffersAreBacked, Removed
    <3>2. d # c
      BY <2>2, <3>1 DEF Removes
    <3>3. QED BY <1>1, <3>1, <3>2, RemovalsStand
  <2>3. QED BY <2>1, <2>2
<1>5. HoldsAreBacked'
  <2> SUFFICES ASSUME NEW d \in Calls, Holds(call'[d]), call'[d].fresh,
                      call'[d].connection \notin stale',
                      NEW k \in DOMAIN call'[d].keys \ vault
               PROVE  \E e \in Calls \ {d} : Removes(call'[e], call'[d].connection, k)
    BY DEF HoldsAreBacked, Removed, Holds
  <2>1. d # c
    BY <1>1
  <2>2. /\ Holds(call[d]) /\ call[d].fresh /\ call[d].connection \notin stale
        /\ k \in DOMAIN call[d].keys /\ call'[d].connection = call[d].connection
        /\ call[d].connection # n
    BY <1>1, <1>2, <2>1 DEF OthersStand, Holds
  <2>3. PICK e \in Calls \ {d} : Removes(call[e], call[d].connection, k)
    BY <2>2 DEF HoldsAreBacked, Removed
  <2>4. e # c
    BY <2>2, <2>3 DEF Removes
  <2>5. QED BY <1>1, <2>2, <2>3, <2>4, RemovalsStand
<1>6. KeysHaveOneOwner'
  <2>1. ASSUME NEW a \in Calls, NEW b \in Calls,
               NEW k \in DOMAIN call'[a].keys \cap DOMAIN call'[b].keys
        PROVE  call'[a].connection = call'[b].connection
    <3>1. ASSUME NEW d \in Calls, k \in DOMAIN call'[d].keys
          PROVE  k \in DOMAIN call[d].keys /\ call'[d].connection = call[d].connection
      BY <1>1, <3>1 DEF OthersStand
    <3>2. QED BY <2>1, <3>1 DEF KeysHaveOneOwner
  <2>2. ASSUME NEW d \in Calls, NEW m \in Existing',
               NEW k \in DOMAIN call'[d].keys \cap DOMAIN connection'[m]
        PROVE  call'[d].connection = m
    <3>1. k \in DOMAIN call[d].keys /\ call'[d].connection = call[d].connection
      BY <1>1, <2>2 DEF OthersStand
    <3>2. CASE m = n
      BY <1>3, <2>2, <3>1, <3>2 DEF KeysHaveOneOwner
    <3>3. CASE m # n
      BY <1>3, <2>2, <3>1, <3>3 DEF KeysHaveOneOwner
    <3>4. QED BY <3>2, <3>3
  <2>3. ASSUME NEW m \in Existing' \ {n},
               NEW k \in DOMAIN call[c].keys \cap DOMAIN connection'[m]
        PROVE  FALSE
    BY <1>3, <2>3 DEF KeysHaveOneOwner
  <2>4. ASSUME NEW l \in Existing', NEW m \in Existing',
               NEW k \in DOMAIN connection'[l] \cap DOMAIN connection'[m]
        PROVE  l = m
    <3>1. CASE l = n \/ m = n
      BY <1>3, <2>3, <2>4, <3>1
    <3>2. CASE l # n /\ m # n
      BY <1>3, <2>4, <3>2 DEF KeysHaveOneOwner
    <3>3. QED BY <3>1, <3>2
  <2>5. QED BY <2>1, <2>2, <2>4 DEF KeysHaveOneOwner
<1>7. HoldersHaveAConnection'
  BY <1>0, <1>1 DEF HoldersHaveAConnection, Holds, OthersStand
<1>8. SecretsAreUsed'
  <2> SUFFICES ASSUME stale' = {}, NEW k \in vault
               PROVE  \/ \E m \in Existing' : k \in DOMAIN connection'[m]
                      \/ \E d \in Calls : call'[d].at = "put" /\ k \in DOMAIN call'[d].keys
    BY DEF SecretsAreUsed
  <2>1. call[c].fresh /\ stale = {}
    BY <1>2
  <2>2. CASE k \in DOMAIN call[c].keys
    BY <1>3, <2>2
  <2>3. CASE k \notin DOMAIN call[c].keys
    <3>1. CASE \E m \in Existing : k \in DOMAIN connection[m]
      <4>1. PICK m \in Existing : k \in DOMAIN connection[m]
        BY <3>1
      <4>2. m # n
        BY <2>1, <2>3, <4>1 DEF SecretsAreHeld
      <4>3. QED BY <1>3, <4>1, <4>2
    <3>2. CASE \E d \in Calls : call[d].at = "put" /\ k \in DOMAIN call[d].keys
      BY <1>1, <2>3, <3>2 DEF OthersStand
    <3>3. QED BY <2>1, <3>1, <3>2 DEF SecretsAreUsed
  <2>4. QED BY <2>2, <2>3
<1>9. SecretsAreHeld'
  <2> SUFFICES ASSUME stale' = {}, NEW d \in Calls, Holds(call'[d]), call'[d].fresh,
                      call'[d].connection \in Existing',
                      NEW k \in DOMAIN connection'[call'[d].connection] \cap vault
               PROVE  k \in DOMAIN call'[d].keys
    BY DEF SecretsAreHeld, Holds
  <2>1. d # c
    BY <1>1
  <2>2. /\ Holds(call[d]) /\ call[d].fresh /\ call[d].connection # n
        /\ call'[d].connection = call[d].connection /\ call'[d].keys = call[d].keys
    BY <1>1, <2>1 DEF OthersStand, Holds
  <2>3. QED BY <1>2, <1>3, <2>2 DEF SecretsAreHeld
<1>10. QED BY <1>4, <1>5, <1>6, <1>7, <1>8, <1>9

\* The ways a call takes up, keeps and lets go of a pool.
LEMMA LetsGoVault ==
    ASSUME IInv, VaultInv, NEW c \in Calls, NEW r, call'[c] = r, OthersStand(c),
           UNCHANGED <<connection, stale, vault>>,
           ~Holds(r), DOMAIN r.keys = {},
           call[c].at # "put", call[c].at = "loaded" => call[c].op # "delete"
    PROVE  VaultInv'
<1>1. \A n, k : ~Removes(call[c], n, k)
  BY DEF Removes
<1>2. QED BY <1>1, GoKeepsVault

LEMMA TakesPool ==
    ASSUME IInv, VaultInv, NEW c \in Calls, NEW r \in CallRecords, Go(c, r),
           UNCHANGED <<connection, stale, vault>>,
           call[c].at \in {"free", "route"},
           r.connection \in Existing, r.keys = connection[r.connection]
    PROVE  VaultInv'
<1>1. call'[c] = r /\ OthersStand(c)
  BY GoStands
<1>2. \A n, k : ~Removes(call[c], n, k)
  BY DEF Removes
<1>3. ASSUME r.connection \notin stale, NEW k \in DOMAIN r.keys \ vault
      PROVE  Removed(Calls \ {c}, r.connection, k)
  BY <1>2, <1>3 DEF VaultInv, OffersAreBacked, Removed
<1>4. r.connection \in Connections
  BY DEF Existing
<1>5. QED BY <1>1, <1>2, <1>3, <1>4, GoKeepsVault

LEMMA KeepsHold ==
    ASSUME IInv, VaultInv, NEW c \in Calls, NEW r \in CallRecords, Go(c, r),
           UNCHANGED <<connection, stale>>,
           call[c].at \in {"loaded", "asking"},
           r.connection = call[c].connection, r.fresh = call[c].fresh,
           \A n, k : Removes(call[c], n, k) => Removes(r, n, k),
           \A k \in vault \ vault' :
              Removes(r, call[c].connection, k) /\ k \in DOMAIN call[c].keys,
           \A k \in vault' \ vault : k \notin known /\ r.at = "put" /\ k \in DOMAIN r.keys,
           \A k \in DOMAIN r.keys \ DOMAIN call[c].keys : k \notin known /\ k \in vault',
           \A k \in DOMAIN call[c].keys \ DOMAIN r.keys : k \notin vault'
    PROVE  VaultInv'
<1>1. call'[c] = r /\ OthersStand(c) /\ Holds(call[c])
  BY GoStands DEF Holds
<1>2. ASSUME r.fresh, r.connection \notin stale, NEW k \in DOMAIN r.keys \ vault'
      PROVE  Removed(Calls \ {c}, r.connection, k)
  <2>1. k \in DOMAIN call[c].keys \ vault
    BY <1>2 DEF Removes
  <2>2. QED BY <1>1, <1>2, <2>1 DEF VaultInv, HoldsAreBacked
<1>3. ASSUME stale = {}, r.fresh, r.connection \in Existing,
             NEW k \in DOMAIN connection[r.connection] \cap vault'
      PROVE  k \in DOMAIN r.keys
  <2>1. k \in vault
    BY <1>3, KnownKeys
  <2>2. k \in DOMAIN call[c].keys
    BY <1>1, <1>3, <2>1 DEF VaultInv, SecretsAreHeld
  <2>3. QED BY <1>3, <2>2
<1>4. r.connection \in Connections
  BY <1>1 DEF VaultInv, HoldersHaveAConnection
<1>5. QED BY <1>1, <1>2, <1>3, <1>4, GoKeepsVault

-----------------------------------------------------------------------------
(* The actions, for the secrets.                                           *)

LEMMA LeavesVault ==
    ASSUME IInv, VaultInv, NEW c \in Calls, NEW r \in CallRecords, Go(c, r),
           UNCHANGED <<connection, stale, vault>>,
           r.at \notin {"loaded", "asking", "put"}, DOMAIN r.keys = {},
           call[c].at # "put", call[c].at = "loaded" => call[c].op # "delete"
    PROVE  VaultInv'
<1>1. call'[c] = r /\ OthersStand(c)
  BY GoStands
<1>2. ~Holds(r)
  BY DEF Holds
<1>3. QED BY <1>1, <1>2, LetsGoVault

LEMMA BeginVault ==
    ASSUME IInv, VaultInv, NEW c \in Calls, NEW op, Begin(c, op) PROVE VaultInv'
<1>1. PICK r : r = [Free EXCEPT !.op = op, !.at = "route"]
  OBVIOUS
<1>2. r \in CallRecords /\ r.at = "route" /\ DOMAIN r.keys = {}
  BY <1>1, FreeRecord DEF Begin, CallRecords, Operations, Stages
<1>3. Go(c, r) /\ UNCHANGED <<connection, stale, vault>> /\ call[c].at = "free"
  BY <1>1 DEF Begin
<1>4. QED BY <1>2, <1>3, LeavesVault

LEMMA LeavingVault ==
    ASSUME IInv, VaultInv, NEW c \in Calls,
           NoRoute(c) \/ Leave(c) \/ Refuse(c) \/ Record(c)
    PROVE  VaultInv'
<1>1. /\ Go(c, Free) /\ UNCHANGED <<connection, stale, vault>>
      /\ call[c].at # "put" /\ (call[c].at = "loaded" => call[c].op # "delete")
  BY DEF NoRoute, Leave, Refuse, Record
<1>2. QED BY <1>1, FreeRecord, LeavesVault

LEMMA LoadVault ==
    ASSUME IInv, VaultInv, NEW c \in Calls, NEW op, NEW n \in Connections, Load(c, op, n)
    PROVE  VaultInv'
<1>1. PICK r : r = [Free EXCEPT !.op = op, !.at = "loaded", !.connection = n,
                                !.keys = connection[n]]
  OBVIOUS
<1>2. n \in Existing /\ connection[n] \in Pools
  BY DEF Load, IInv, Types, Existing
<1>3. r \in CallRecords /\ r.connection = n /\ r.keys = connection[n]
  BY <1>1, <1>2, FreeRecord DEF Load, CallRecords, Operations, Stages
<1>4. Go(c, r) /\ UNCHANGED <<connection, stale, vault>> /\ call[c].at = "free"
  BY <1>1 DEF Load
<1>5. QED BY <1>2, <1>3, <1>4, TakesPool

LEMMA RouteVault ==
    ASSUME IInv, VaultInv, NEW c \in Calls, NEW n \in Connections, Route(c, n)
    PROVE  VaultInv'
<1>1. PICK single \in BOOLEAN :
        \/ Go(c, [call[c] EXCEPT !.at = "asking", !.connection = n, !.keys = connection[n],
                    !.left = Usable(connection[n]), !.single = single])
        \/ Go(c, [Free EXCEPT !.op = "stream", !.at = "record"])
        \/ Go(c, Free)
  BY DEF Route
<1>2. /\ n \in Existing /\ connection[n] \in Pools /\ call[c] \in CallRecords
      /\ call[c].at = "route" /\ UNCHANGED <<connection, stale, vault>>
  BY DEF Route, IInv, Types, Existing
<1>3. CASE Go(c, [call[c] EXCEPT !.at = "asking", !.connection = n, !.keys = connection[n],
                    !.left = Usable(connection[n]), !.single = single])
  <2>1. PICK r : r = [call[c] EXCEPT !.at = "asking", !.connection = n,
                        !.keys = connection[n], !.left = Usable(connection[n]),
                        !.single = single]
    OBVIOUS
  <2>2. Usable(connection[n]) \in SUBSET Keys
    BY <1>2, PoolDomains DEF Usable
  <2>3. r \in CallRecords /\ r.connection = n /\ r.keys = connection[n]
    BY <1>2, <2>1, <2>2 DEF CallRecords, Stages
  <2>4. Go(c, r)
    BY <1>3, <2>1
  <2>5. QED BY <1>2, <2>3, <2>4, TakesPool
<1>4. CASE Go(c, [Free EXCEPT !.op = "stream", !.at = "record"])
  <2>1. PICK r : r = [Free EXCEPT !.op = "stream", !.at = "record"]
    OBVIOUS
  <2>2. r \in CallRecords /\ r.at = "record" /\ DOMAIN r.keys = {}
    BY <2>1, FreeRecord DEF CallRecords, Operations, Stages
  <2>3. Go(c, r)
    BY <1>4, <2>1
  <2>4. QED BY <1>2, <2>2, <2>3, LeavesVault
<1>5. CASE Go(c, Free)
  BY <1>2, <1>5, FreeRecord, LeavesVault
<1>6. QED BY <1>1, <1>3, <1>4, <1>5

\* a step of an answered call puts the marked pool back, or tries another key
LEMMA AnswerVault ==
    ASSUME IInv, VaultInv, NEW c \in Calls, NEW k \in Keys, NEW outcome, NEW r \in CallRecords,
           call[c].at = "asking",
           \/ Go(c, r) /\ UNCHANGED <<connection, stale>>
              /\ r.at = "asking" /\ r.connection = call[c].connection
              /\ r.fresh = call[c].fresh /\ DOMAIN r.keys = DOMAIN call[c].keys
           \/ Store(c, call[c].connection, Marked(call[c].keys, k, outcome), r)
              /\ \/ r.at = "record" /\ DOMAIN r.keys = {}
                 \/ ~r.fresh /\ r.connection = call[c].connection /\ r.keys = call[c].keys,
           vault' = vault
    PROVE  VaultInv'
<1>1. Holds(call[c]) /\ \A n, j : ~Removes(call[c], n, j)
  BY DEF Holds, Removes
<1>2. CASE Go(c, r) /\ UNCHANGED <<connection, stale>>
           /\ r.connection = call[c].connection
           /\ r.fresh = call[c].fresh /\ DOMAIN r.keys = DOMAIN call[c].keys
  BY <1>1, <1>2, KeepsHold
<1>3. CASE Store(c, call[c].connection, Marked(call[c].keys, k, outcome), r)
           /\ \/ r.at = "record" /\ DOMAIN r.keys = {}
              \/ ~r.fresh /\ r.connection = call[c].connection /\ r.keys = call[c].keys
  <2>1. PICK pool : pool = Marked(call[c].keys, k, outcome)
    OBVIOUS
  <2>2. pool \in Pools /\ DOMAIN pool = DOMAIN call[c].keys
    BY <2>1, RecordsOfCalls, MarkedPools
  <2>3. Store(c, call[c].connection, pool, r)
    BY <1>3, <2>1
  <2>4. Holds(r) => ~r.fresh /\ r.connection = call[c].connection
    BY <1>3 DEF Holds
  <2>5. /\ DOMAIN r.keys \subseteq DOMAIN call[c].keys
        /\ DOMAIN r.keys # {} => r.connection = call[c].connection
    BY <1>3
  <2>6. QED BY <1>1, <2>2, <2>3, <2>4, <2>5, StoreKeepsVault
<1>4. QED BY <1>2, <1>3

LEMMA GenerateVault ==
    ASSUME IInv, VaultInv, NEW c \in Calls, NEW k \in Keys, NEW outcome,
           Generate(c, k, outcome)
    PROVE  VaultInv'
<1> DEFINE now  == call[c]
           pool == Marked(now.keys, k, outcome)
           left == IF now.single THEN now.left ELSE now.left \ {k}
           tries == IF now.single THEN now.tries + 1 ELSE now.tries
<1>1. now \in CallRecords /\ pool \in Pools /\ DOMAIN pool = DOMAIN now.keys
      /\ now.at = "asking" /\ vault' = vault
  BY RecordsOfCalls, MarkedPools DEF Generate
<1>2. PICK asks : asks = [now EXCEPT !.keys = pool, !.left = left, !.tries = tries]
  OBVIOUS
<1>3. PICK ends : ends = [Free EXCEPT !.op = "generate", !.at = "record"]
  OBVIOUS
<1>4. \/ Go(c, asks) /\ UNCHANGED <<connection, stale>>
      \/ Store(c, now.connection, pool, ends)
  BY <1>2, <1>3 DEF Generate
<1>5. left \in SUBSET Keys /\ tries \in Nat
  BY <1>1 DEF CallRecords
<1> HIDE DEF left, tries
<1>6. /\ asks \in CallRecords /\ asks.at = "asking" /\ asks.connection = now.connection
      /\ asks.fresh = now.fresh /\ DOMAIN asks.keys = DOMAIN now.keys
  BY <1>1, <1>2, <1>5 DEF CallRecords
<1>7. ends \in CallRecords /\ ends.at = "record" /\ DOMAIN ends.keys = {}
  BY <1>3, FreeRecord DEF CallRecords, Operations, Stages
<1>8. QED BY <1>1, <1>4, <1>6, <1>7, AnswerVault

LEMMA StreamVault ==
    ASSUME IInv, VaultInv, NEW c \in Calls, NEW k \in Keys, NEW outcome, NEW started,
           Stream(c, k, outcome, started)
    PROVE  VaultInv'
<1> DEFINE now  == call[c]
           pool == Marked(now.keys, k, outcome)
<1>1. now \in CallRecords /\ now.at = "asking" /\ vault' = vault
  BY RecordsOfCalls DEF Stream
<1>2. PICK ends : ends = [Free EXCEPT !.op = "stream", !.at = "record"]
  OBVIOUS
<1>3. PICK next : next = [now EXCEPT !.left = @ \ {k}, !.fresh = FALSE]
  OBVIOUS
<1>4. Store(c, now.connection, pool, ends) \/ Store(c, now.connection, pool, next)
  BY <1>2, <1>3 DEF Stream
<1>5. ends \in CallRecords /\ ends.at = "record" /\ DOMAIN ends.keys = {}
  BY <1>2, FreeRecord DEF CallRecords, Operations, Stages
<1>6. next \in CallRecords /\ next.connection = now.connection /\ next.keys = now.keys
      /\ ~next.fresh
  BY <1>1, <1>3 DEF CallRecords
<1>7. QED BY <1>1, <1>4, <1>5, <1>6, AnswerVault

LEMMA CreateVault ==
    ASSUME IInv, VaultInv, NEW c \in Calls, NEW n \in Connections, NEW k \in Keys, NEW status,
           Create(c, n, k, status)
    PROVE  VaultInv'
<1>1. PICK pool : pool = [j \in {k} |-> status]
  OBVIOUS
<1>2. PICK r : r = [Free EXCEPT !.op = "create", !.at = "put", !.connection = n, !.keys = pool]
  OBVIOUS
<1>3. /\ n \notin known /\ k \notin known /\ Go(c, r) /\ UNCHANGED <<connection, stale>>
      /\ vault' = vault \cup {k} /\ status \in KeyStatuses /\ call[c].at = "free"
  BY <1>1, <1>2 DEF Create, Fresh, KeyStatuses
<1>4. pool \in Pools /\ DOMAIN pool = {k}
  <2>1. pool \in [{k} -> KeyStatuses] /\ {k} \in SUBSET Keys
    BY <1>1, <1>3
  <2>2. QED BY <2>1 DEF Pools
<1>5. r \in CallRecords /\ r.at = "put" /\ r.connection = n /\ r.keys = pool
  BY <1>2, <1>4, FreeRecord DEF CallRecords, Operations, Stages
<1>6. call'[c] = r /\ OthersStand(c)
  BY <1>3, <1>5, GoStands
<1>7. n \notin Existing /\ \A m, j : ~Removes(call[c], m, j)
  BY <1>3 DEF IInv, NamesAreKnown, Removes
<1>8. QED BY <1>3, <1>4, <1>5, <1>6, <1>7, GoKeepsVault

LEMMA AddKeyVault ==
    ASSUME IInv, VaultInv, NEW c \in Calls, NEW k \in Keys, AddKey(c, k)
    PROVE  VaultInv'
<1> DEFINE pool == call[c].keys
<1>1. PICK grown : grown = [j \in DOMAIN pool \cup {k} |-> IF j = k THEN "active" ELSE pool[j]]
  OBVIOUS
<1>2. PICK r : r = [call[c] EXCEPT !.at = "put", !.keys = grown]
  OBVIOUS
<1>3. /\ call[c].at = "loaded" /\ call[c].op = "add" /\ k \notin known
      /\ vault' = vault \cup {k} /\ Go(c, r) /\ UNCHANGED <<connection, stale>>
  BY <1>1, <1>2 DEF AddKey, Fresh
<1>4. grown \in Pools /\ DOMAIN grown = DOMAIN pool \cup {k}
  BY <1>1, RecordsOfCalls, GrownPools
<1>5. /\ r \in CallRecords /\ r.at = "put" /\ r.keys = grown
      /\ r.connection = call[c].connection /\ r.fresh = call[c].fresh
  BY <1>2, <1>4, RecordsOfCalls DEF CallRecords, Stages
<1>6. \A n, j : ~Removes(call[c], n, j)
  BY <1>3 DEF Removes
<1>7. QED BY <1>3, <1>4, <1>5, <1>6, KeepsHold

\* the secret goes, and so does the key from the pool in hand
LEMMA ShrunkVault ==
    ASSUME IInv, VaultInv, NEW c \in Calls, NEW k \in DOMAIN call[c].keys, NEW at,
           \/ call[c].op = "remove" /\ at = "put"
           \/ call[c].op = "delete" /\ at = "loaded",
           call[c].at = "loaded",
           Go(c, [call[c] EXCEPT !.at = at,
                     !.keys = Restrict(call[c].keys, DOMAIN call[c].keys \ {k})]),
           vault' = vault \ {k}, UNCHANGED <<connection, stale>>
    PROVE  VaultInv'
<1>1. PICK shrunk : shrunk = Restrict(call[c].keys, DOMAIN call[c].keys \ {k})
  OBVIOUS
<1>2. PICK r : r = [call[c] EXCEPT !.at = at, !.keys = shrunk]
  OBVIOUS
<1>3. shrunk \in Pools /\ DOMAIN shrunk = DOMAIN call[c].keys \ {k}
  BY <1>1, RecordsOfCalls, ShrunkPools
<1>4. /\ r \in CallRecords /\ r.at = at /\ r.op = call[c].op /\ r.keys = shrunk
      /\ r.connection = call[c].connection /\ r.fresh = call[c].fresh
  BY <1>2, <1>3, RecordsOfCalls DEF CallRecords, Stages
<1>5. Go(c, r)
  BY <1>1, <1>2
<1>6. /\ \A n, j : Removes(call[c], n, j) => Removes(r, n, j)
      /\ Removes(r, call[c].connection, k)
  BY <1>3, <1>4 DEF Removes
<1>7. QED BY <1>3, <1>4, <1>5, <1>6, KeepsHold

LEMMA RemoveKeyVault ==
    ASSUME IInv, VaultInv, NEW c \in Calls, NEW k, RemoveKey(c, k)
    PROVE  VaultInv'
<1>1. Go(c, [call[c] EXCEPT !.at = "put",
               !.keys = Restrict(call[c].keys, DOMAIN call[c].keys \ {k})])
  BY DEF RemoveKey
<1>2. /\ call[c].at = "loaded" /\ call[c].op = "remove" /\ k \in DOMAIN call[c].keys
      /\ vault' = vault \ {k} /\ UNCHANGED <<connection, stale>>
  BY DEF RemoveKey, WithoutSecret
<1>3. QED BY <1>1, <1>2, ShrunkVault

LEMMA DropSecretVault ==
    ASSUME IInv, VaultInv, NEW c \in Calls, NEW k, DropSecret(c, k)
    PROVE  VaultInv'
<1>1. /\ call[c].at = "loaded" /\ call[c].op = "delete" /\ k \in DOMAIN call[c].keys
      /\ vault' = vault \ {k} /\ UNCHANGED <<connection, stale>>
  BY DEF DropSecret, WithoutSecret
<1>2. [call[c] EXCEPT !.keys = Restrict(@, DOMAIN @ \ {k})] =
      [call[c] EXCEPT !.at = "loaded",
         !.keys = Restrict(call[c].keys, DOMAIN call[c].keys \ {k})]
  BY <1>1, RecordsOfCalls DEF CallRecords
<1>3. Go(c, [call[c] EXCEPT !.at = "loaded",
               !.keys = Restrict(call[c].keys, DOMAIN call[c].keys \ {k})])
  BY <1>2 DEF DropSecret
<1>4. QED BY <1>1, <1>3, ShrunkVault

\* a put of the pool in hand, after which the call holds none
LEMMA PutsBackVault ==
    ASSUME IInv, VaultInv, NEW c \in Calls, NEW r \in CallRecords,
           Store(c, call[c].connection, call[c].keys, r), vault' = vault,
           call[c].at \in {"loaded", "put"},
           DOMAIN r.keys = {}, r.at \in {"free", "prefs"}
    PROVE  VaultInv'
<1>1. Holds(call[c]) /\ ~Holds(r)
  BY DEF Holds
<1>2. QED BY <1>1, RecordsOfCalls, StoreKeepsVault

LEMMA RewriteVault ==
    ASSUME IInv, VaultInv, NEW c \in Calls, Rewrite(c)
    PROVE  VaultInv'
<1>1. Store(c, call[c].connection, call[c].keys, Free) /\ vault' = vault
      /\ call[c].at = "loaded"
  BY DEF Rewrite
<1>2. QED BY <1>1, FreeRecord, PutsBackVault

LEMMA PutVault ==
    ASSUME IInv, VaultInv, NEW c \in Calls, Put(c)
    PROVE  VaultInv'
<1>1. PICK made : made = [Free EXCEPT !.op = "create", !.at = "prefs",
                                      !.connection = call[c].connection]
  OBVIOUS
<1>2. made \in CallRecords /\ made.at = "prefs" /\ DOMAIN made.keys = {}
  BY <1>1, FreeRecord, RecordsOfCalls DEF CallRecords, Operations, Stages
<1>3. /\ call[c].at = "put" /\ vault' = vault
      /\ \/ Store(c, call[c].connection, call[c].keys, made)
         \/ Store(c, call[c].connection, call[c].keys, Free)
  BY <1>1 DEF Put
<1>4. QED BY <1>2, <1>3, FreeRecord, PutsBackVault

LEMMA EraseVault ==
    ASSUME IInv, VaultInv, NEW c \in Calls, Erase(c)
    PROVE  VaultInv'
<1>1. PICK r : r = [Free EXCEPT !.op = "delete", !.at = "prefs",
                                !.connection = call[c].connection]
  OBVIOUS
<1>2. /\ Store(c, call[c].connection, None, r) /\ vault' = vault
      /\ call[c].at = "loaded" /\ call[c].keys = <<>>
  BY <1>1 DEF Erase
<1>3. r \in CallRecords /\ r.at = "prefs" /\ DOMAIN r.keys = {}
  BY <1>1, FreeRecord, RecordsOfCalls DEF CallRecords, Operations, Stages
<1>4. Holds(call[c]) /\ ~Holds(r) /\ DOMAIN call[c].keys = {}
  BY <1>2, <1>3 DEF Holds
<1>5. QED BY <1>2, <1>3, <1>4, StoreKeepsVault

LEMMA ReadPreferencesVault ==
    ASSUME IInv, VaultInv, NEW c \in Calls, NEW choice \in Connections \cup {None},
           ReadPreferences(c, choice)
    PROVE  VaultInv'
<1>1. PICK prefer : prefer = [Free EXCEPT !.op = call[c].op, !.at = "prefer",
                                          !.choice = choice, !.fresh = call[c].fresh]
  OBVIOUS
<1>2. prefer \in CallRecords /\ prefer.at = "prefer" /\ DOMAIN prefer.keys = {}
  BY <1>1, FreeRecord, RecordsOfCalls DEF CallRecords, Operations, Stages
<1>3. /\ Go(c, Free) \/ Go(c, prefer)
      /\ UNCHANGED <<connection, stale, vault>> /\ call[c].at = "prefs"
  BY <1>1 DEF ReadPreferences
<1>4. QED BY <1>2, <1>3, FreeRecord, LeavesVault

LEMMA PreferVault ==
    ASSUME IInv, VaultInv, NEW c \in Calls, NEW choice \in Connections \cup {None},
           Prefer(c, choice)
    PROVE  VaultInv'
<1>1. PICK r : r = [Free EXCEPT !.op = "prefer", !.at = "prefer", !.choice = choice]
  OBVIOUS
<1>2. r \in CallRecords /\ r.at = "prefer" /\ DOMAIN r.keys = {}
  BY <1>1, FreeRecord DEF CallRecords, Operations, Stages
<1>3. Go(c, r) /\ UNCHANGED <<connection, stale, vault>> /\ call[c].at = "free"
  BY <1>1 DEF Prefer
<1>4. QED BY <1>2, <1>3, LeavesVault

LEMMA WritePreferencesVault ==
    ASSUME IInv, VaultInv, NEW c \in Calls, WritePreferences(c)
    PROVE  VaultInv'
<1>1. call'[c] = Free /\ OthersStand(c)
  BY DEF WritePreferences, IInv, Types, CallRecords, OthersStand
<1>2. UNCHANGED <<connection, stale, vault>> /\ call[c].at = "prefer" /\ ~Holds(Free)
  BY FreeRecord DEF WritePreferences, Holds
<1>3. QED BY <1>1, <1>2, FreeRecord, LetsGoVault

\* no secret, no call and no domain of a pool changes
LEMMA SameKeysVault ==
    ASSUME VaultInv, UNCHANGED <<vault, call, stale>>, Existing' = Existing,
           \A n \in Existing : DOMAIN connection'[n] = DOMAIN connection[n]
    PROVE  VaultInv'
<1>1. OffersAreBacked' /\ HoldsAreBacked'
  BY DEF VaultInv, OffersAreBacked, HoldsAreBacked, Removed
<1>2. KeysHaveOneOwner' /\ HoldersHaveAConnection'
  BY DEF VaultInv, KeysHaveOneOwner, HoldersHaveAConnection
<1>3. SecretsAreUsed' /\ SecretsAreHeld'
  BY DEF VaultInv, SecretsAreUsed, SecretsAreHeld
<1>4. QED BY <1>1, <1>2, <1>3 DEF VaultInv

\* A key that comes to rest stays in its pool.
LEMMA RestIsQuiet ==
    ASSUME IInv, NEW n \in Connections, NEW k \in Keys, Rest(n, k)
    PROVE  /\ Existing' = Existing
           /\ \A m \in Existing : DOMAIN connection'[m] = DOMAIN connection[m]
<1>1. PICK pool : pool = [connection[n] EXCEPT ![k] = "rested"]
  OBVIOUS
<1>2. /\ n \in Existing /\ k \in DOMAIN connection[n] /\ connection[n] \in Pools
      /\ connection' = [connection EXCEPT ![n] = pool]
  BY <1>1 DEF Rest, PoolOf, IInv, Types, Existing
<1>3. pool \in Pools /\ pool # None /\ DOMAIN pool = DOMAIN connection[n]
  BY <1>1, <1>2, NoneAssumption DEF Pools, KeyStatuses
<1>4. \A m \in Connections : connection'[m] = IF m = n THEN pool ELSE connection[m]
  BY <1>2 DEF IInv, Types
<1>5. Existing' = Existing
  BY <1>2, <1>3, <1>4 DEF Existing
<1>6. QED BY <1>3, <1>4, <1>5 DEF Existing

LEMMA RestVault ==
    ASSUME IInv, VaultInv, NEW n \in Connections, NEW k \in Keys, Rest(n, k)
    PROVE  VaultInv'
BY RestIsQuiet, SameKeysVault DEF Rest

LEMMA VaultStep == ASSUME IInv, VaultInv, [Next]_vars PROVE VaultInv'
<1>1. ASSUME NEW c \in Calls, Serve(c) PROVE VaultInv'
  BY <1>1, BeginVault, RouteVault, LeavingVault, GenerateVault, StreamVault DEF Serve
<1>2. ASSUME NEW c \in Calls, Manage(c) PROVE VaultInv'
  BY <1>2, LoadVault, CreateVault, AddKeyVault, RemoveKeyVault, DropSecretVault,
     RewriteVault, PutVault, LeavingVault, EraseVault, ReadPreferencesVault,
     PreferVault, WritePreferencesVault
  DEF Manage
<1>3. CASE UNCHANGED vars
  <2>1. UNCHANGED <<vault, call, stale>> /\ connection' = connection
    BY <1>3 DEF vars
  <2>2. QED BY <2>1, SameKeysVault DEF Existing
<1>4. QED BY <1>1, <1>2, <1>3, RestVault DEF Next

-----------------------------------------------------------------------------
(* The actions, for the default.                                           *)

\* A step of c that leaves the preferences alone.
LEMMA PreferencesKept ==
    ASSUME PreferenceInv, NEW c \in Calls,
           UNCHANGED <<default, crossed>>,
           \A d \in Calls \ {c} :
              /\ call'[d].at = call[d].at /\ call'[d].op = call[d].op
              /\ call'[d].connection = call[d].connection
              /\ call'[d].choice = call[d].choice
              /\ call'[d].fresh =>
                   /\ call[d].fresh
                   /\ Good(call[d].choice) => Good(call[d].choice)'
                   /\ call[d].connection \in Existing => call[d].connection \in Existing',
           Replaces(call[c]) => Replaces(call[c])',
           Good(default) => Good(default)' \/ Replaces(call[c])',
           Chooses(call[c])'
    PROVE  PreferenceInv'
<1> USE DEF PreferenceInv
<1>1. DefaultIsReplaced'
  <2> SUFFICES ASSUME ~crossed, ~Good(default)'
               PROVE  \E d \in Calls : Replaces(call[d])'
    BY DEF DefaultIsReplaced
  <2>1. CASE Good(default)
    BY <2>1
  <2>2. CASE ~Good(default)
    <3>1. PICK d \in Calls : Replaces(call[d])
      BY <2>2 DEF DefaultIsReplaced
    <3>2. CASE d = c
      BY <3>1, <3>2
    <3>3. CASE d # c
      BY <3>1, <3>3 DEF Replaces, Good
    <3>4. QED BY <3>2, <3>3
  <2>3. QED BY <2>1, <2>2
<1>2. ChoicesAreCurrent'
  <2> SUFFICES ASSUME NEW d \in Calls PROVE Chooses(call[d])'
    BY DEF ChoicesAreCurrent
  <2>1. CASE d # c
    BY <2>1 DEF ChoicesAreCurrent, Chooses, Good
  <2>2. QED BY <2>1
<1>3. QED BY <1>1, <1>2

LEMMA GoKeepsPreferences ==
    ASSUME Types, PreferenceInv, NEW c \in Calls, NEW r, Go(c, r),
           UNCHANGED <<connection, default, crossed>>,
           Replaces(call[c]) => Replaces(r),
           Chooses(r)
    PROVE  PreferenceInv'
<1>1. call'[c] = r /\ \A d \in Calls \ {c} : call'[d] = call[d]
  BY DEF Types, Go
<1>2. Existing' = Existing /\ default' = default
  BY DEF Existing
<1>3. /\ \A n : Good(n)' <=> Good(n)
      /\ Replaces(call[c])' <=> Replaces(r)
      /\ Chooses(call[c])' <=> Chooses(r)
  BY <1>1, <1>2 DEF Good, Replaces, Chooses
<1>4. QED BY <1>1, <1>2, <1>3, PreferencesKept

\* A step of a call that is not about to write the preferences, nor will be.
LEMMA ElsewherePreferences ==
    ASSUME IInv, PreferenceInv, NEW c \in Calls, NEW r, Go(c, r),
           UNCHANGED <<connection, default, crossed>>,
           call[c].at \notin {"prefs", "prefer"},
           r.at \notin {"prefs", "prefer"}
    PROVE  PreferenceInv'
BY GoKeepsPreferences DEF IInv, Replaces, Chooses

LEMMA StoreChoices ==
    ASSUME Types, NEW c \in Calls, NEW r \in CallRecords,
           NEW n \in Connections, NEW pool \in Pools \cup {None},
           Store(c, n, pool, r)
    PROVE  \A d \in Calls \ {c} :
              /\ call'[d].at = call[d].at /\ call'[d].op = call[d].op
              /\ call'[d].connection = call[d].connection
              /\ call'[d].choice = call[d].choice
              /\ call'[d].fresh => /\ call[d].fresh /\ call[d].connection # n
                                   /\ pool = None => call[d].choice # n
<1> DEFINE out == Outdated(n, pool)
<1>1. out \in [Calls -> CallRecords]
  BY DEF Outdated, Types, CallRecords
<1>2. call' = [out EXCEPT ![c] = r]
  BY DEF Store
<1>3. \A d \in Calls \ {c} : call'[d] = Outdated(n, pool)[d]
  BY <1>1, <1>2
<1>4. \A d \in Calls :
        /\ Outdated(n, pool)[d].at = call[d].at /\ Outdated(n, pool)[d].op = call[d].op
        /\ Outdated(n, pool)[d].connection = call[d].connection
        /\ Outdated(n, pool)[d].choice = call[d].choice
        /\ Outdated(n, pool)[d].fresh =>
             /\ call[d].fresh /\ call[d].connection # n
             /\ pool = None => call[d].choice # n
  BY DEF Types, Outdated, CallRecords
<1>5. QED BY <1>3, <1>4

\* A pool is put under its connection.
LEMMA PutKeepsPreferences ==
    ASSUME IInv, VaultInv, PreferenceInv, NEW c \in Calls, NEW r \in CallRecords,
           Holds(call[c]), NEW pool \in Pools, Store(c, call[c].connection, pool, r),
           UNCHANGED <<default, crossed>>,
           \/ r.at \notin {"prefs", "prefer"}
           \/ r.at = "prefs" /\ r.connection = call[c].connection
    PROVE  PreferenceInv'
<1>1. call[c].connection \in Connections /\ Types
  BY DEF IInv, VaultInv, HoldersHaveAConnection
<1>2. /\ call'[c] = r /\ connection'[call[c].connection] = pool
      /\ \A m \in Connections \ {call[c].connection} : connection'[m] = connection[m]
  BY <1>1, StoreChanges
<1>3. pool # None
  BY NoneAssumption DEF Pools
<1>4. Existing \subseteq Existing' /\ call[c].connection \in Existing'
  BY <1>1, <1>2, <1>3 DEF Existing
<1>5. \A n : Good(n) => Good(n)'
  BY <1>4 DEF Good
<1>6. ~Replaces(call[c]) /\ Chooses(call[c])'
  BY <1>2, <1>4 DEF Replaces, Chooses, Holds
<1>7. QED BY <1>1, <1>4, <1>5, <1>6, StoreChoices, PreferencesKept

LEMMA ErasePreferences ==
    ASSUME IInv, VaultInv, PreferenceInv, NEW c \in Calls, Erase(c)
    PROVE  PreferenceInv'
<1>1. PICK n : n = call[c].connection
  OBVIOUS
<1>2. PICK r : r = [Free EXCEPT !.op = "delete", !.at = "prefs", !.connection = n]
  OBVIOUS
<1>3. /\ Store(c, n, None, r) /\ UNCHANGED <<default, crossed>>
      /\ call[c].at = "loaded"
  BY <1>1, <1>2 DEF Erase
<1>4. n \in Connections /\ Types
  BY <1>1, <1>3 DEF IInv, VaultInv, HoldersHaveAConnection, Holds
<1>5. r \in CallRecords /\ r.at = "prefs" /\ r.op = "delete" /\ r.connection = n
  BY <1>2, <1>4, FreeRecord DEF CallRecords, Operations, Stages
<1>6. /\ call'[c] = r
      /\ \A m \in Connections \ {n} : connection'[m] = connection[m]
  BY <1>3, <1>4, <1>5, StoreChanges
<1>7. /\ \A m \in Existing \ {n} : m \in Existing'
      /\ \A m : Good(m) /\ m # n => Good(m)'
  BY <1>6 DEF Existing, Good
<1>8. Good(default) => Good(default)' \/ Replaces(call[c])'
  BY <1>3, <1>5, <1>6, <1>7 DEF Replaces
<1>9. ~Replaces(call[c]) /\ Chooses(call[c])'
  BY <1>3, <1>5, <1>6 DEF Replaces, Chooses
<1>10. \A d \in Calls \ {c} :
        /\ call'[d].at = call[d].at /\ call'[d].op = call[d].op
        /\ call'[d].connection = call[d].connection
        /\ call'[d].choice = call[d].choice
        /\ call'[d].fresh => call[d].fresh /\ call[d].connection # n /\ call[d].choice # n
  BY <1>3, <1>4, <1>5, StoreChoices
<1>11. QED BY <1>3, <1>7, <1>8, <1>9, <1>10, PreferencesKept

LEMMA ServePreferences ==
    ASSUME IInv, VaultInv, PreferenceInv, NEW c \in Calls, Serve(c)
    PROVE  PreferenceInv'
<1>1. call[c] \in CallRecords /\ Free \in CallRecords /\ Free.at = "free"
  BY RecordsOfCalls, FreeRecord
<1>2. ASSUME NEW op, Begin(c, op) PROVE PreferenceInv'
  <2>1. PICK r : r = [Free EXCEPT !.op = op, !.at = "route"]
    OBVIOUS
  <2>2. r.at = "route"
    BY <1>1, <2>1 DEF CallRecords
  <2>3. QED BY <1>2, <2>1, <2>2, ElsewherePreferences DEF Begin
<1>3. ASSUME NEW n \in Connections, Route(c, n) PROVE PreferenceInv'
  <2>1. PICK r : /\ Go(c, r)
                 /\ \/ \E single \in BOOLEAN :
                         r = [call[c] EXCEPT !.at = "asking", !.connection = n,
                                !.keys = connection[n], !.left = Usable(connection[n]),
                                !.single = single]
                    \/ r = [Free EXCEPT !.op = "stream", !.at = "record"]
                    \/ r = Free
    BY <1>3 DEF Route
  <2>2. r.at \in {"asking", "record", "free"}
    BY <1>1, <2>1 DEF CallRecords
  <2>3. QED BY <1>3, <2>1, <2>2, ElsewherePreferences DEF Route
<1>4. ASSUME NoRoute(c) \/ Record(c) \/ Leave(c) PROVE PreferenceInv'
  BY <1>1, <1>4, ElsewherePreferences DEF NoRoute, Record, Leave
<1>5. ASSUME NEW k \in Keys, NEW outcome, Generate(c, k, outcome) PROVE PreferenceInv'
  <2>1. PICK pool : pool = Marked(call[c].keys, k, outcome)
    OBVIOUS
  <2>2. pool \in Pools /\ Holds(call[c])
    BY <1>5, <2>1, RecordsOfCalls, MarkedPools DEF Generate, Holds
  <2>3. PICK ends : ends = [Free EXCEPT !.op = "generate", !.at = "record"]
    OBVIOUS
  <2>4. PICK left, tries : \/ Store(c, call[c].connection, pool, ends)
                           \/ /\ Go(c, [call[c] EXCEPT !.keys = pool, !.left = left,
                                                       !.tries = tries])
                              /\ UNCHANGED connection
    BY <1>5, <2>1, <2>3 DEF Generate
  <2>5. PICK asks : asks = [call[c] EXCEPT !.keys = pool, !.left = left, !.tries = tries]
    OBVIOUS
  <2>6. /\ ends \in CallRecords /\ ends.at = "record" /\ asks.at = call[c].at
    BY <1>1, <2>3, <2>5 DEF CallRecords, Operations, Stages
  <2>7. call[c].at = "asking" /\ UNCHANGED <<default, crossed>>
    BY <1>5 DEF Generate
  <2>8. CASE Store(c, call[c].connection, pool, ends)
    BY <2>2, <2>6, <2>7, <2>8, PutKeepsPreferences
  <2>9. CASE Go(c, asks) /\ UNCHANGED connection
    BY <2>6, <2>7, <2>9, ElsewherePreferences
  <2>10. QED BY <2>4, <2>5, <2>8, <2>9
<1>6. ASSUME NEW k \in Keys, NEW outcome, NEW started, Stream(c, k, outcome, started)
      PROVE  PreferenceInv'
  <2>1. PICK pool : pool = Marked(call[c].keys, k, outcome)
    OBVIOUS
  <2>2. pool \in Pools /\ Holds(call[c])
    BY <1>6, <2>1, RecordsOfCalls, MarkedPools DEF Stream, Holds
  <2>3. PICK r : /\ Store(c, call[c].connection, pool, r)
                 /\ \/ r = [Free EXCEPT !.op = "stream", !.at = "record"]
                    \/ r = [call[c] EXCEPT !.left = @ \ {k}, !.fresh = FALSE]
    BY <1>6, <2>1 DEF Stream
  <2>4. r \in CallRecords /\ r.at \in {"record", call[c].at}
    BY <1>1, <2>3 DEF CallRecords, Operations, Stages
  <2>5. call[c].at = "asking" /\ UNCHANGED <<default, crossed>>
    BY <1>6 DEF Stream
  <2>6. QED BY <2>2, <2>3, <2>4, <2>5, PutKeepsPreferences
<1>7. QED BY <1>2, <1>3, <1>4, <1>5, <1>6 DEF Serve

\* The steps of management before the preferences are read.
LEMMA ManagePreferences ==
    ASSUME IInv, VaultInv, PreferenceInv, NEW c \in Calls,
           \/ \E op, n : Load(c, op, n)
           \/ \E n \in Connections, k \in Keys : \E status : Create(c, n, k, status)
           \/ \E k : AddKey(c, k) \/ RemoveKey(c, k) \/ DropSecret(c, k)
           \/ Refuse(c)
    PROVE  PreferenceInv'
<1>1. call[c] \in CallRecords /\ Free \in CallRecords
  BY RecordsOfCalls, FreeRecord
<1>2. ASSUME NEW op, NEW n, Load(c, op, n) PROVE PreferenceInv'
  <2>1. PICK r : r = [Free EXCEPT !.op = op, !.at = "loaded", !.connection = n,
                                  !.keys = connection[n]]
    OBVIOUS
  <2>2. r.at = "loaded"
    BY <1>1, <2>1 DEF CallRecords
  <2>3. QED BY <1>2, <2>1, <2>2, ElsewherePreferences DEF Load
<1>3. ASSUME NEW n \in Connections, NEW k \in Keys, NEW status, Create(c, n, k, status)
      PROVE  PreferenceInv'
  <2>1. PICK r : r = [Free EXCEPT !.op = "create", !.at = "put", !.connection = n,
                                  !.keys = [j \in {k} |-> status]]
    OBVIOUS
  <2>2. r.at = "put"
    BY <1>1, <2>1 DEF CallRecords
  <2>3. QED BY <1>3, <2>1, <2>2, ElsewherePreferences DEF Create
<1>4. ASSUME NEW k, AddKey(c, k) \/ RemoveKey(c, k) \/ DropSecret(c, k)
      PROVE  PreferenceInv'
  <2>1. PICK keys : \/ Go(c, [call[c] EXCEPT !.at = "put", !.keys = keys])
                    \/ Go(c, [call[c] EXCEPT !.keys = keys])
    BY <1>4 DEF AddKey, RemoveKey, DropSecret
  <2>2. PICK r : /\ Go(c, r)
                 /\ \/ r = [call[c] EXCEPT !.at = "put", !.keys = keys]
                    \/ r = [call[c] EXCEPT !.keys = keys]
    BY <2>1
  <2>3. call[c].at = "loaded" /\ UNCHANGED <<connection, default, crossed>>
    BY <1>4 DEF AddKey, RemoveKey, DropSecret
  <2>4. r.at \in {"put", "loaded"}
    BY <1>1, <2>2, <2>3 DEF CallRecords
  <2>5. QED BY <2>2, <2>3, <2>4, ElsewherePreferences
<1>5. CASE Refuse(c)
  BY <1>5, FreeRecord, ElsewherePreferences DEF Refuse
<1>6. QED BY <1>2, <1>3, <1>4, <1>5

LEMMA PutPreferences ==
    ASSUME IInv, VaultInv, PreferenceInv, NEW c \in Calls, Rewrite(c) \/ Put(c)
    PROVE  PreferenceInv'
<1>1. PICK r : /\ Store(c, call[c].connection, call[c].keys, r)
               /\ \/ r = [Free EXCEPT !.op = "create", !.at = "prefs",
                                       !.connection = call[c].connection]
                  \/ r = Free
  BY DEF Rewrite, Put
<1>2. /\ call[c].keys \in Pools /\ Holds(call[c]) /\ UNCHANGED <<default, crossed>>
  BY RecordsOfCalls DEF Rewrite, Put, Holds
<1>3. call[c] \in CallRecords /\ Free \in CallRecords /\ Free.at = "free"
  BY RecordsOfCalls, FreeRecord
<1>4. /\ r \in CallRecords
      /\ \/ r.at = "prefs" /\ r.connection = call[c].connection
         \/ r.at = "free"
  BY <1>1, <1>3 DEF CallRecords, Operations, Stages
<1>5. QED BY <1>1, <1>2, <1>4, PutKeepsPreferences

LEMMA ReadPreferencesPreferences ==
    ASSUME IInv, PreferenceInv, NEW c \in Calls, NEW choice \in Connections \cup {None},
           ReadPreferences(c, choice)
    PROVE  PreferenceInv'
<1>1. PICK prefer : prefer = [Free EXCEPT !.op = call[c].op, !.at = "prefer",
                                          !.choice = choice, !.fresh = call[c].fresh]
  OBVIOUS
<1>2. /\ prefer.at = "prefer" /\ prefer.choice = choice /\ prefer.fresh = call[c].fresh
      /\ Free.at = "free"
  BY <1>1, FreeRecord DEF CallRecords
<1>3. /\ UNCHANGED <<connection, default, crossed>> /\ call[c].at = "prefs" /\ Types
      /\ Chooses(call[c])
  BY DEF ReadPreferences, IInv, PreferenceInv, ChoicesAreCurrent
<1>4. CASE call[c].op = "create" /\ Go(c, Free)
  <2>1. ~Replaces(call[c]) /\ Chooses(Free)
    BY <1>2, <1>3, <1>4 DEF Replaces, Chooses
  <2>2. QED BY <1>3, <1>4, <2>1, GoKeepsPreferences
<1>5. CASE call[c].op = "create" /\ choice = call[c].connection /\ Go(c, prefer)
  <2>1. ~Replaces(call[c]) /\ Chooses(prefer)
    BY <1>2, <1>3, <1>5 DEF Replaces, Chooses, Good
  <2>2. QED BY <1>3, <1>5, <2>1, GoKeepsPreferences
<1>6. CASE HandOver(call[c].connection, choice) /\ Go(c, prefer)
  <2>1. choice = default \/ Good(choice)
    BY <1>6 DEF HandOver, Good
  <2>2. default = call[c].connection => Good(choice)
    BY <1>6 DEF HandOver, Good
  <2>3. (Replaces(call[c]) => Replaces(prefer)) /\ Chooses(prefer)
    BY <1>2, <1>3, <2>1, <2>2 DEF Replaces, Chooses
  <2>4. QED BY <1>3, <1>6, <2>3, GoKeepsPreferences
<1>7. QED BY <1>1, <1>4, <1>5, <1>6 DEF ReadPreferences

LEMMA PreferPreferences ==
    ASSUME IInv, PreferenceInv, NEW c \in Calls, NEW choice \in Connections \cup {None},
           Prefer(c, choice)
    PROVE  PreferenceInv'
<1>1. PICK r : r = [Free EXCEPT !.op = "prefer", !.at = "prefer", !.choice = choice]
  OBVIOUS
<1>2. r.at = "prefer" /\ r.choice = choice
  BY <1>1, FreeRecord DEF CallRecords
<1>3. /\ Go(c, r) /\ UNCHANGED <<connection, default, crossed>> /\ call[c].at = "free"
      /\ Good(choice) /\ Types
  BY <1>1 DEF Prefer, Good, IInv
<1>4. ~Replaces(call[c]) /\ Chooses(r)
  BY <1>2, <1>3 DEF Replaces, Chooses
<1>5. QED BY <1>3, <1>4, GoKeepsPreferences

\* Whoever writes the preferences outdates the choices of the others.
LEMMA WritePreferencesPreferences ==
    ASSUME IInv, PreferenceInv, NEW c \in Calls, WritePreferences(c)
    PROVE  PreferenceInv'
<1> USE DEF PreferenceInv
<1>1. /\ default' = call[c].choice /\ call[c].at = "prefer"
      /\ crossed' = (crossed \/ ~call[c].fresh) /\ connection' = connection
  BY DEF WritePreferences
<1>2. /\ call'[c] = Free
      /\ \A d \in Calls \ {c} :
           /\ call'[d].at = call[d].at /\ call'[d].op = call[d].op
           /\ call'[d].connection = call[d].connection
           /\ call'[d].fresh => call[d].fresh
           /\ call[d].at = "prefer" => ~call'[d].fresh
  BY DEF WritePreferences, IInv, Types, CallRecords
<1>3. Existing' = Existing /\ \A n : Good(n)' <=> Good(n)
  BY <1>1 DEF Existing, Good
<1>4. DefaultIsReplaced'
  <2> SUFFICES ASSUME ~crossed', ~Good(default)'
               PROVE  \E d \in Calls : Replaces(call[d])'
    BY DEF DefaultIsReplaced
  <2>1. ~crossed /\ call[c].fresh /\ ~Good(call[c].choice)
    BY <1>1, <1>3 DEF Good
  <2>2. call[c].choice = default
    BY <1>1, <2>1 DEF ChoicesAreCurrent, Chooses
  <2>3. PICK d \in Calls : Replaces(call[d])
    BY <2>1, <2>2 DEF DefaultIsReplaced
  <2>4. d # c
    BY <1>1, <2>1, <2>3 DEF Replaces
  <2>5. Replaces(call[d])'
    BY <1>1, <1>2, <2>2, <2>3, <2>4 DEF Replaces
  <2>6. QED BY <2>5
<1>5. ChoicesAreCurrent'
  <2> SUFFICES ASSUME NEW d \in Calls PROVE Chooses(call[d])'
    BY DEF ChoicesAreCurrent
  <2>1. CASE d = c
    BY <1>2, <2>1, FreeRecord DEF Chooses
  <2>2. CASE d # c
    <3>1. Chooses(call[d])
      BY DEF ChoicesAreCurrent
    <3>2. QED BY <1>2, <1>3, <2>2, <3>1 DEF Chooses
  <2>3. QED BY <2>1, <2>2
<1>6. QED BY <1>4, <1>5

LEMMA SamePreferences ==
    ASSUME PreferenceInv, UNCHANGED <<call, default, crossed>>, Existing' = Existing
    PROVE  PreferenceInv'
BY DEF PreferenceInv, DefaultIsReplaced, ChoicesAreCurrent, Replaces, Chooses, Good

LEMMA PreferenceStep ==
    ASSUME IInv, VaultInv, PreferenceInv, [Next]_vars PROVE PreferenceInv'
<1>1. ASSUME NEW c \in Calls, Manage(c) PROVE PreferenceInv'
  BY <1>1, ManagePreferences, PutPreferences, ErasePreferences,
     ReadPreferencesPreferences, PreferPreferences, WritePreferencesPreferences
  DEF Manage
<1>2. ASSUME NEW n \in Connections, NEW k \in Keys, Rest(n, k) PROVE PreferenceInv'
  <2>1. UNCHANGED <<call, default, crossed>> /\ Existing' = Existing
    BY <1>2, RestIsQuiet DEF Rest
  <2>2. QED BY <2>1, SamePreferences
<1>3. CASE UNCHANGED vars
  <2>1. UNCHANGED <<call, default, crossed>> /\ Existing' = Existing
    BY <1>3 DEF vars, Existing
  <2>2. QED BY <2>1, SamePreferences
<1>4. QED BY <1>1, <1>2, <1>3, ServePreferences DEF Next

-----------------------------------------------------------------------------
LEMMA InitInvariant == Init => IInv
<1> SUFFICES ASSUME Init PROVE IInv
  OBVIOUS
<1>1. /\ \A n \in Connections : connection[n] = None
      /\ \A c \in Calls : call[c] = Free
      /\ Types /\ used = 0
  BY FreeRecord DEF Init, Types
<1>2. CeilingLeft
  <2>1. Working = {}
    BY <1>1, FreeRecord DEF Working, Works
  <2>2. Cardinality(Working) = 0 /\ Cardinality(Calls) \in Nat
    BY <2>1, GatewayAssumption, FS_EmptySet, FS_CardinalityType
  <2>3. QED BY <1>1, <2>2, GatewayAssumption DEF CeilingLeft
<1>3. NamesAreKnown /\ CreatorsAreAlone /\ ReadsAreFaithful
  BY <1>1, FreeRecord
  DEF NamesAreKnown, Named, Existing, CreatorsAreAlone, Alone, Creates,
      ReadsAreFaithful, Faithful
<1>4. QED BY <1>1, <1>2, <1>3 DEF IInv

LEMMA StepInvariant == IInv /\ [Next]_vars => Kept
<1> SUFFICES ASSUME IInv, [Next]_vars PROVE Kept
  OBVIOUS
<1>1. ASSUME NEW c \in Calls, Serve(c) PROVE Kept
  BY <1>1, BeginKeeps, RouteKeeps, LeavingKeeps, RecordKeeps, GenerateKeeps, StreamKeeps
  DEF Serve
<1>2. ASSUME NEW c \in Calls, Manage(c) PROVE Kept
  BY <1>2, LoadKeeps, CreateKeeps, AddKeyKeeps, RemoveKeyKeeps, DropSecretKeeps,
     RewriteKeeps, PutKeeps, LeavingKeeps, EraseKeeps, ReadPreferencesKeeps,
     PreferKeeps, WritePreferencesKeeps
  DEF Manage
<1>3. ASSUME NEW n \in Connections, NEW k \in Keys, Rest(n, k) PROVE Kept
  BY <1>3, RestKeeps
<1>4. CASE UNCHANGED vars
  BY <1>4
  DEF vars, Kept, IInv, Types, CeilingLeft, Working, Works, NamesAreKnown, Named,
      Existing, CreatorsAreAlone, Alone, Creates, ReadsAreFaithful, KeysStayRetired
<1>5. QED BY <1>1, <1>2, <1>3, <1>4 DEF Next

(* The usage records of the day and the calls about to write one exceed    *)
(* the ceiling by one less than the calls served together: whoever begins  *)
(* saw fewer records than the ceiling, and each call writes one at most.   *)
THEOREM CeilingHolds == Spec => []CeilingHoldsButForOverlap
<1>1. IInv => CeilingHoldsButForOverlap
  <2> SUFFICES ASSUME IInv PROVE CeilingHoldsButForOverlap
    OBVIOUS
  <2> DEFINE Recording == {c \in Calls : call[c].at = "record"}
  <2>1. Recording \in SUBSET Working /\ Working \in SUBSET Calls
    BY DEF Working, Works
  <2> HIDE DEF Recording
  <2>2. Cardinality(Recording) <= Cardinality(Working) /\ Cardinality(Recording) \in Nat
        /\ Cardinality(Working) \in Nat /\ Cardinality(Calls) \in Nat
    BY <2>1, Subsets
  <2>3. used + Cardinality(Recording) <= DailyCeiling + Cardinality(Calls) - 1
    BY <2>2, GatewayAssumption DEF IInv, CeilingLeft, Types
  <2>4. QED BY <2>3 DEF CeilingHoldsButForOverlap, Recording
<1>2. QED BY <1>1, InitInvariant, StepInvariant, PTL DEF Spec, Kept

(* A key the provider rejected is usable again only if a connection was    *)
(* put back from an outdated read: every call whose read is current has    *)
(* all the retired keys of the store retired in the pool it would write.   *)
THEOREM RetiredKeysRest == Spec => RetiredKeysStayRetired
<1>1. KeysStayRetired =>
        \A n \in Existing : \A k \in PoolOf(n) \cap PoolOf(n)' :
          connection[n][k] = "invalid" /\ connection'[n][k] # "invalid" => n \in stale'
  BY DEF KeysStayRetired
<1>2. QED BY <1>1, InitInvariant, StepInvariant, PTL
      DEF Spec, Kept, RetiredKeysStayRetired

-----------------------------------------------------------------------------
LEMMA InitVault == Init => VaultInv /\ PreferenceInv
<1> SUFFICES ASSUME Init PROVE VaultInv /\ PreferenceInv
  OBVIOUS
<1>1. /\ Existing = {} /\ vault = {} /\ default = None
      /\ \A c \in Calls : call[c] = Free
  BY DEF Init, Existing
<1>2. VaultInv
  BY <1>1, FreeRecord
  DEF VaultInv, OffersAreBacked, HoldsAreBacked, KeysHaveOneOwner, HoldersHaveAConnection,
      SecretsAreUsed, SecretsAreHeld, Holds
<1>3. PreferenceInv
  BY <1>1, FreeRecord
  DEF PreferenceInv, DefaultIsReplaced, ChoicesAreCurrent, Chooses, Good
<1>4. QED BY <1>2, <1>3

LEMMA AllHolds == Spec => [](IInv /\ VaultInv /\ PreferenceInv)
<1>1. Init => IInv /\ VaultInv /\ PreferenceInv
  BY InitInvariant, InitVault
<1>2. IInv /\ VaultInv /\ PreferenceInv /\ [Next]_vars => (IInv /\ VaultInv /\ PreferenceInv)'
  BY StepInvariant, VaultStep, PreferenceStep DEF Kept
<1>3. QED BY <1>1, <1>2, PTL DEF Spec

(* When no call is underway, every key on offer has its secret and every   *)
(* secret its key, but for connections put back from an outdated read: a   *)
(* missing secret has a call that will put the record without its key, and *)
(* an unused one a call that will put its key.                             *)
THEOREM VaultMatchesPools == Spec => []QuietVaultMatchesPools
<1>1. VaultInv => QuietVaultMatchesPools
  <2> SUFFICES ASSUME VaultInv, Quiet PROVE QuietVaultMatchesPools
    BY DEF QuietVaultMatchesPools
  <2>1. \A n, k : ~Removed(Calls, n, k)
    BY DEF Quiet, Removed, Removes
  <2>2. \A n \in Existing \ stale : PoolOf(n) \subseteq vault
    BY <2>1 DEF VaultInv, OffersAreBacked, PoolOf
  <2>3. ASSUME stale = {}, NEW k \in vault PROVE \E n \in Existing : k \in PoolOf(n)
    <3>1. \E n \in Existing : k \in DOMAIN connection[n]
      BY <2>3 DEF VaultInv, SecretsAreUsed, Quiet
    <3>2. QED BY <3>1 DEF PoolOf
  <2>4. QED BY <2>2, <2>3 DEF QuietVaultMatchesPools
<1>2. QED BY <1>1, AllHolds, PTL

(* When no call is underway, the default connection exists or there is     *)
(* none, unless preferences were put back from an outdated read: whoever   *)
(* deletes the default is about to name another, and a choice that is      *)
(* deleted before it is written counts as outdated.                        *)
THEOREM TheDefaultExists == Spec => []DefaultExists
<1>1. PreferenceInv => DefaultExists
  BY DEF PreferenceInv, DefaultIsReplaced, Replaces, Good, DefaultExists, Quiet
<1>2. QED BY <1>1, AllHolds, PTL
=============================================================================

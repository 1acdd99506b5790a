------------------------------ MODULE ClientPool -------------------------------
(* The two client pools of BlockchainService (src/src/service/blockchain.go):  *)
(* GetClient and GetBundlerClient with their read lock, write lock and double  *)
(* check, and Close. A client is created for one kind of use on one chain.     *)
EXTENDS Naturals, FiniteSets

CONSTANTS
    Workers,   \* the goroutines that ask for clients
    Chains,    \* supported chains
    MaxClients \* bound on the clients open or in use

Kinds   == {"eth", "bundler"}
Keys    == Chains \X Kinds
Clients == 1 .. MaxClients
NoClient == 0
Nobody   == "nobody"
NoKey    == <<"none", "none">>

ASSUME PoolAssumption ==
    /\ MaxClients \in Nat
    /\ Nobody \notin Workers
    /\ NoKey \notin Keys

VARIABLES
    pool,    \* pool[k]: the pooled client; a nil map is a map without entries
    open,    \* clients dialled and not closed
    mu,      \* who holds the write lock
    want,    \* want[w]: the key w is asking for
    client,  \* client[w]: the client w was given
    at       \* at[w]: where w is

poolVars == <<pool, open, mu>>
callerVars == <<want, client>>

GoTo(w, s) == at' = [at EXCEPT ![w] = s]

PoolInit ==
    /\ pool = [k \in Keys |-> NoClient]
    /\ open = {} /\ mu = Nobody
    /\ want = [w \in Workers |-> NoKey]
    /\ client = [w \in Workers |-> NoClient]

PoolGone ==
    /\ pool' = [k \in Keys |-> NoClient]
    /\ open' = {} /\ mu' = Nobody
    /\ want' = [w \in Workers |-> NoKey]
    /\ client' = [w \in Workers |-> NoClient]

\* A client, or an error instead of one.
Given(w, c) ==
    /\ client' = [client EXCEPT ![w] = c]
    /\ GoTo(w, "call")

\* Under the read lock, which a writer excludes.
Lookup(w, k) ==
    /\ mu = Nobody
    /\ want' = [want EXCEPT ![w] = k]
    /\ IF pool[k] # NoClient THEN Given(w, pool[k])
       ELSE GoTo(w, "lock") /\ UNCHANGED client
    /\ UNCHANGED poolVars

\* Another goroutine may have dialled between the two locks.
Wrong_NoSecondLook(w) ==
    /\ at[w] = "lock" /\ mu = Nobody
    /\ mu' = w
    /\ GoTo(w, "dial")
    /\ UNCHANGED <<pool, open, callerVars>>
LockAndCheck(w) ==
    /\ at[w] = "lock" /\ mu = Nobody
    /\ \/ /\ pool[want[w]] # NoClient
          /\ Given(w, pool[want[w]])
          /\ UNCHANGED mu
       \/ /\ pool[want[w]] = NoClient
          /\ mu' = w
          /\ GoTo(w, "dial")
          /\ UNCHANGED client
    /\ UNCHANGED <<pool, open, want>>

\* The first of the clients that is not open and that nobody holds: a new one.
NewClient ==
    LET unused == Clients \ (open \cup {client[w] : w \in Workers}) IN
    {c \in unused : \A d \in unused : c <= d}

\* The write lock is held while dialling and released in either case.
Wrong_KeepsLockOnError(w) ==
    /\ at[w] = "dial"
    /\ Given(w, NoClient)
    /\ UNCHANGED <<poolVars, want>>
Dial(w) ==
    /\ at[w] = "dial"
    /\ mu' = Nobody
    /\ \/ \E c \in NewClient :
            /\ open' = open \cup {c}
            /\ pool' = [pool EXCEPT ![want[w]] = c]
            /\ Given(w, c)
       \/ Given(w, NoClient) /\ UNCHANGED <<pool, open>>
    /\ UNCHANGED want

GetClient(w) == LockAndCheck(w) \/ Dial(w)

\* The caller has used the client, or its error.
Release(w) ==
    /\ want' = [want EXCEPT ![w] = NoKey]
    /\ client' = [client EXCEPT ![w] = NoClient]
    /\ UNCHANGED poolVars

Wrong_ForgetsBundlers ==
    /\ mu = Nobody
    /\ open' = open \ {pool[k] : k \in {l \in Keys : l[2] = "eth"}}
    /\ pool' = [k \in Keys |-> NoClient]
    /\ UNCHANGED <<mu, callerVars, at>>
ClosePools ==
    /\ mu = Nobody
    /\ open' = open \ {pool[k] : k \in Keys}
    /\ pool' = [k \in Keys |-> NoClient]
    /\ UNCHANGED <<mu, callerVars, at>>

PoolTypeOK ==
    /\ pool \in [Keys -> Clients \cup {NoClient}]
    /\ open \subseteq Clients
    /\ mu \in Workers \cup {Nobody}
    /\ want \in [Workers -> Keys \cup {NoKey}]
    /\ client \in [Workers -> Clients \cup {NoClient}]

\* Every open client can be reached through the pool, each under one key: two
\* goroutines that miss in the pool at the same time end up with one client, and
\* Close leaves none behind (blockchain.go:89 and :140).
NoOrphanClient ==
    \A c \in open : Cardinality({k \in Keys : pool[k] = c}) = 1
================================================================================

--------------------------- MODULE ClientRegistry ---------------------------
(***************************************************************************)
(* The registry of the gateway's clients and the indexes by which events   *)
(* find their subscribers (crates/gateway/src/client.rs).  It is shared:   *)
(* every connection's task changes it while the router's task reads it.    *)
(*                                                                         *)
(* A step is what is done for one subject.  The calls for one client come  *)
(* from the task of its connection alone, so that no other task sees the   *)
(* client's own set of subscriptions ahead of the index.  The registry's   *)
(* third index, `subscriptions', is written along with these two and read  *)
(* by no service; it is left out.                                          *)
(***************************************************************************)
EXTENDS Subjects

CONSTANTS
  Clients,    \* the connections there may be, each with an id of its own
  Patterns,   \* the subjects and patterns that clients subscribe to
  Assets      \* the subjects <<market, asset>> of the events

ASSUME RegistryAssumption ==
  /\ Patterns \subseteq Seq(STRING)
  /\ Assets \subseteq Seq(STRING)
  /\ \A a \in Assets : ~IsWildcard(a)

VARIABLES
  registered,   \* the keys of `clients'
  subs,         \* subs[c]: ClientState::subscriptions of c
  exact,        \* exact[p]: exact_subscriptions under p
  wildcard      \* wildcard[p]: the clients in wildcard_patterns beside p

registryVars == <<registered, subs, exact, wildcard>>

RegistryInit ==
  /\ registered = {}
  /\ subs = [c \in Clients |-> {}]
  /\ exact = [p \in Patterns |-> {}]
  /\ wildcard = [p \in Patterns |-> {}]

-----------------------------------------------------------------------------
Register(c) ==
  /\ registered' = registered \union {c}
  /\ UNCHANGED <<subs, exact, wildcard>>

(* Bug: patterns are only looked up as exact subjects. *)
AddSubjectAsExact(c, p) ==
  /\ c \in registered
  /\ subs' = [subs EXCEPT ![c] = @ \union {p}]
  /\ exact' = [exact EXCEPT ![p] = @ \union {c}]
  /\ UNCHANGED <<registered, wildcard>>

(* The body of subscribe's loop. *)
AddSubject(c, p) ==
  /\ c \in registered
  /\ subs' = [subs EXCEPT ![c] = @ \union {p}]
  /\ IF IsWildcard(p)
     THEN wildcard' = [wildcard EXCEPT ![p] = @ \union {c}] /\ UNCHANGED exact
     ELSE exact' = [exact EXCEPT ![p] = @ \union {c}] /\ UNCHANGED wildcard
  /\ UNCHANGED registered

(* Takes c out of the index that p belongs to. *)
Unindex(c, p) ==
  IF IsWildcard(p)
  THEN wildcard' = [wildcard EXCEPT ![p] = @ \ {c}] /\ UNCHANGED exact
  ELSE exact' = [exact EXCEPT ![p] = @ \ {c}] /\ UNCHANGED wildcard

(* The body of unsubscribe's loop. *)
RemoveSubject(c, p) ==
  /\ c \in registered
  /\ subs' = [subs EXCEPT ![c] = @ \ {p}]
  /\ Unindex(c, p)
  /\ UNCHANGED registered

(* unregister, its first step: nobody finds the client any more. *)
RemoveClient(c) ==
  /\ c \in registered
  /\ registered' = registered \ {c}
  /\ UNCHANGED <<subs, exact, wildcard>>

(* Bug: a client that leaves stays in the index of the patterns. *)
ForgetExactSubject(c, p) ==
  /\ subs' = [subs EXCEPT ![c] = @ \ {p}]
  /\ exact' = [exact EXCEPT ![p] = @ \ {c}]
  /\ UNCHANGED <<registered, wildcard>>

(* The body of unregister's loop over the client's subscriptions, which    *)
(* are freed after the loop and of which subs[c] keeps those to come.  For *)
(* a pattern the client is cleared from every pattern.                     *)
ForgetSubject(c, p) ==
  /\ subs' = [subs EXCEPT ![c] = @ \ {p}]
  /\ IF IsWildcard(p)
     THEN wildcard' = [q \in Patterns |-> wildcard[q] \ {c}] /\ UNCHANGED exact
     ELSE exact' = [exact EXCEPT ![p] = @ \ {c}] /\ UNCHANGED wildcard
  /\ UNCHANGED registered

(* Bug: of the patterns only those that end in ">" are scanned. *)
GreaterSubscribers(asset) ==
  UNION {wildcard[p] : p \in {q \in Patterns : Matches(q, asset) /\ q[Len(q)] = Greater}}

(* get_matching_subscribers looks the subject up, scans the patterns, and  *)
(* looks the clients up: three reads, at three moments.                    *)
ExactSubscribers(asset) == IF asset \in Patterns THEN exact[asset] ELSE {}

WildcardSubscribers(asset) ==
  UNION {wildcard[p] : p \in {q \in Patterns : Matches(q, asset)}}

(* Any calls, of one task for each client. *)
RegistryNext ==
  \E c \in Clients :
     \/ subs[c] = {} /\ Register(c)
     \/ RemoveClient(c)
     \/ \E p \in Patterns : AddSubject(c, p) \/ RemoveSubject(c, p)
     \/ c \notin registered /\ \E p \in subs[c] : ForgetSubject(c, p)

RegistrySpec == RegistryInit /\ [][RegistryNext]_registryVars

-----------------------------------------------------------------------------
(* Every variable has its type. *)
RegistryTypeOK ==
  /\ registered \in SUBSET Clients
  /\ subs \in [Clients -> SUBSET Patterns]
  /\ exact \in [Patterns -> SUBSET Clients]
  /\ wildcard \in [Patterns -> SUBSET Clients]

(* A subject is in the index of its kind, and there it has the registered  *)
(* clients that subscribe to it.                                           *)
IndexesAgree ==
  \A p \in Patterns :
     LET index == IF IsWildcard(p) THEN wildcard[p] ELSE exact[p]
         other == IF IsWildcard(p) THEN exact[p] ELSE wildcard[p]
     IN  /\ other = {}
         /\ \A c \in registered : c \in index <=> p \in subs[c]
         /\ \A c \in index : p \in subs[c]

(* The two lookups together find whom one scan of every subscription       *)
(* would: splitting the index loses and invents nobody.                    *)
Subscribers(asset) ==
  {c \in registered : \E p \in subs[c] : Matches(p, asset)}

LookupFindsSubscribers ==
  \A a \in Assets :
     registered \intersect (ExactSubscribers(a) \union WildcardSubscribers(a))
        = Subscribers(a)
=============================================================================

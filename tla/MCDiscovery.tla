---------------------------- MODULE MCDiscovery ----------------------------
(***************************************************************************)
(* A small instance of Discovery: an event that is published late, whose   *)
(* tokens cannot be read at first and which then gets a second market, and *)
(* one that stays as it is.  Either clients call the API of the event      *)
(* service, one of them to refresh events and the other for their tokens,  *)
(* or the other services read what its loop stores.                        *)
(***************************************************************************)
EXTENDS Discovery

Of(id, question, tokens) == [id |-> id, question |-> question, tokens |-> tokens]

MCContents ==
  [fed |-> <<<<Of("m1", "cut?", Unparsable)>>,
             <<Of("m0", "hike?", <<"t0">>), Of("m1", "cut?", <<"t1", "t2">>)>>>>,
   seoul |-> <<<<Of("m3", "hot?", <<"t3">>)>>>>]

MCTraded == {[market |-> "m1", token |-> "t2"], [market |-> "c3", token |-> "t3"]}

VARIABLE scenario

mcVars == <<discoveryVars, scenario>>

MCInit ==
  /\ DiscoveryInit
  /\ scenario \in {"api", "readers"}
  /\ scenario = "api" => catalogue["seoul"] = 0

MCNext ==
  /\ DiscoveryNext
  /\ UNCHANGED scenario
  /\ IF scenario = "api"
     THEN /\ UNCHANGED readerVars
          /\ task'["a"].stage \notin {"reading", "checking"}
          /\ task'["b"].stage \notin {"fetching", "storing"}
          /\ catalogue'["seoul"] = 0 /\ \A k \in Callers : task'[k].event # "seoul"
     ELSE \A k \in Callers : task'[k] = Idle

MCSpec == MCInit /\ [][MCNext]_mcVars /\ LoopFairness /\ ReaderFairness
=============================================================================

------------------------------ MODULE Subjects ------------------------------
(***************************************************************************)
(* The subjects a gateway client subscribes to                             *)
(* (crates/gateway/src/subscription.rs).  A subject is the sequence of its *)
(* segments, what split('.') makes of the string.  A segment that contains *)
(* a wildcard character without being one is left out.                     *)
(***************************************************************************)
EXTENDS Integers, Sequences

Star    == "*"   \* stands for one segment
Greater == ">"   \* stands for one or more segments, at the end

(* is_wildcard_pattern of client.rs. *)
IsWildcard(pattern) == \E i \in DOMAIN pattern : pattern[i] \in {Star, Greater}

(* validate_pattern: Greater only at the end, no empty segment. *)
IsValid(pattern) ==
  /\ pattern # <<>>
  /\ \A i \in DOMAIN pattern :
       pattern[i] # "" /\ (pattern[i] = Greater => i = Len(pattern))

(* The first n segments of pattern stand for those of subject. *)
Covers(pattern, subject, n) ==
  \A i \in 1 .. n : pattern[i] \in {Star, subject[i]}

(* matches_subject: the loop over both ends at the first Greater, or at a     *)
(* segment that differs, or at the end of one of them.                     *)
Matches(pattern, subject) ==
  \/ Len(pattern) = Len(subject) /\ Covers(pattern, subject, Len(pattern))
  \/ \E i \in DOMAIN pattern \intersect DOMAIN subject :
       pattern[i] = Greater /\ Covers(pattern, subject, i - 1)
=============================================================================

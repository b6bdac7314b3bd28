---------------------------- MODULE RecencyCache ----------------------------
(***************************************************************************)
(* What internal/cache promises its users, without lists or locks: a       *)
(* bounded map in which a live entry is found, an expired one never is,    *)
(* and which gives up only the entry that was used least recently.         *)
(*                                                                         *)
(* Recency is a relation: <<a, b>> \in newer when a was used after b.  An   *)
(* answer says whether it counts as a use of the key.                      *)
(***************************************************************************)
EXTENDS Integers, FiniteSets

CONSTANTS Keys, Values, Capacity, MaxLife, Zero

VARIABLES content, newer, result
avars == <<content, newer, result>>

Held == DOMAIN content
Among(S) == newer \cap (S \X S)
Keep(S) == [k \in S |-> content[k]]

(* k has just been used; the keys of S keep their order among themselves. *)
FirstAmong(k, S) == Among(S \ {k}) \cup ({k} \X (S \ {k}))

Answer(v, use) == [value |-> v, use |-> use]
Nothing == Answer(Zero, FALSE)

Init == content = << >> /\ newer = {} /\ result = Nothing

(* A live entry is found and becomes the most recent.  At the very instant *)
(* it expires an entry may still be found, or not.                         *)
Hit(k) ==
    /\ k \in Held
    /\ content[k].life >= 0
    /\ result' = Answer(content[k].value, TRUE)
    /\ newer' = FirstAmong(k, Held)
    /\ UNCHANGED content

(* A lookup that does not count as a use. *)
Look(k) ==
    /\ k \in Held
    /\ content[k].life >= 0
    /\ result' = Answer(content[k].value, FALSE)
    /\ UNCHANGED <<content, newer>>

(* Nothing is found only where there is nothing live to find; the expired  *)
(* entry may be dropped on the way.                                        *)
Miss(k) ==
    /\ k \in Held => content[k].life < 0
    /\ result' = Nothing
    /\ \E S \in {Held, Held \ {k}} : content' = Keep(S) /\ newer' = Among(S)

(* The key stored is there afterwards, as the most recent; at most one     *)
(* other key leaves, only for want of room, and it is the least recent.    *)
Store(k, v, life) ==
    /\ result' \in {result, Answer(v, TRUE)}
    /\ LET all == Held \cup {k}
           order == FirstAmong(k, all)
           full == Capacity > 0 /\ Cardinality(all) > Capacity
       IN  \E S \in SUBSET all :
              /\ IF full THEN \E d \in all \ {k} : /\ S = all \ {d}
                                                  /\ \A x \in S : <<x, d>> \in order
                         ELSE S = all
              /\ content' = [x \in S |-> IF x = k THEN [value |-> v, life |-> life]
                                         ELSE content[x]]
              /\ newer' = order \cap (S \X S)

(* Keys are dropped because a user asked for it or because they expired.   *)
Drop(S) ==
    /\ content' = Keep(Held \ S)
    /\ newer' = Among(Held \ S)
    /\ UNCHANGED result

(* A loader that failed caches nothing. *)
Fail == result' = Nothing /\ UNCHANGED <<content, newer>>

Age ==
    /\ content' = [k \in Held |-> [content[k] EXCEPT !.life =
                      IF @ \in {-1, MaxLife} THEN @ ELSE @ - 1]]
    /\ UNCHANGED <<newer, result>>

Next ==
    \/ \E k \in Keys : Hit(k) \/ Look(k) \/ Miss(k)
    \/ \E k \in Keys, v \in Values, life \in 1..MaxLife : Store(k, v, life)
    \/ \E S \in SUBSET Held : Drop(S)
    \/ Fail \/ Age

Spec == Init /\ [][Next]_avars

=============================================================================

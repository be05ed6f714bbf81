----------------------------- MODULE BrowseList -----------------------------
(***************************************************************************)
(* The linked list of linked_list.c, in which the browse callbacks of both *)
(* discoveries leave what they found: its elements are addresses on a heap, *)
(* each with its data and the address of the next one.  A list is a record *)
(* of the fields of LinkedList_str and of the part of the heap it uses.    *)
(* The functions change the list they are given, so here they return it.   *)
(***************************************************************************)
EXTENDS Naturals, Sequences, FiniteSets, Functions

CONSTANTS Addresses,  \* of list elements
          Null        \* the null pointer, and the data of a freed element

ASSUME ListAssumption == Null \notin Addresses /\ IsFiniteSet(Addresses)

LinkedList_str_Constructor ==
    [head_p |-> Null, didRegister |-> 0,
     next_p |-> [e \in Addresses |-> Null],
     data   |-> [e \in Addresses |-> Null],
     heap   |-> {}]

\* malloc gives an address that is not in use.
LinkedListElement_str_Constructor(ll, e, d, next) ==
    [ll EXCEPT !.heap = @ \cup {e}, !.data[e] = d, !.next_p[e] = next]

LinkedListElement_str_Destructor(ll, e) ==
    [ll EXCEPT !.heap = @ \ {e}, !.data[e] = Null, !.next_p[e] = Null]

\* A loop over next_p starts at the head, goes on with the next element and ends
\* at the null pointer.
Visits(ll, c) ==
    /\ ll.head_p = IF c = <<>> THEN Null ELSE c[1]
    /\ \A i \in DOMAIN c : ll.next_p[c[i]] = IF i = Len(c) THEN Null ELSE c[i + 1]

\* The elements it visits, in order.
Chain(ll) ==
    CHOOSE c \in UNION {[1..n -> Addresses] : n \in 0..Cardinality(Addresses)} : Visits(ll, c)

LinkedList_str_FindTail(ll) ==
    LET c == Chain(ll) IN IF ll.head_p = Null THEN Null ELSE c[Len(c)]

\* Mutant: the new element takes the place of the tail instead of following it.
AddElementAtHead(ll, e) == [ll EXCEPT !.head_p = e]

LinkedList_str_AddElement(ll, e) ==
    IF ll.head_p = Null THEN [ll EXCEPT !.head_p = e]
                        ELSE [ll EXCEPT !.next_p[LinkedList_str_FindTail(ll)] = e]

\* The next element is read before the head is freed; an element that is not
\* the head is unlinked from the one before it, one that is not there is left.
LinkedList_str_RemoveElement(ll, e) ==
    LET next == ll.next_p[e]
        before == {p \in Range(Chain(ll)) : ll.next_p[p] = e}
    IN  IF e = ll.head_p
        THEN [LinkedListElement_str_Destructor(ll, e) EXCEPT !.head_p = next]
        ELSE IF before = {} THEN ll
        ELSE LinkedListElement_str_Destructor(
                 [ll EXCEPT !.next_p[CHOOSE p \in before : TRUE] = next], e)

\* Every element is removed in turn, the next one being read before.
LinkedList_str_ClearList(ll) ==
    LET c == Chain(ll)
        After[i \in 0..Len(c)] ==
            IF i = 0 THEN [ll EXCEPT !.didRegister = 0]
                     ELSE LinkedList_str_RemoveElement(After[i - 1], c[i])
    IN  After[Len(c)]

\* What ReturnListFromBrowseResults copies, in order.
Data(ll) == LET c == Chain(ll) IN [i \in DOMAIN c |-> ll.data[c[i]]]
=============================================================================

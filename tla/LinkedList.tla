----------------------------- MODULE LinkedList -----------------------------
(***************************************************************************)
(* The intrusive doubly linked lists of core/native/lists/linked.h.  A     *)
(* head and an item are the same structure, so the links are two functions *)
(* over both; every function of the header is an operator on the links.    *)
(* The history variable lists says which sequence of items every head is   *)
(* meant to hold, and stale which items still point into a list that       *)
(* linked_list_cut_before discarded.                                       *)
(***************************************************************************)
EXTENDS Integers, FiniteSetsExt, SequencesExt

CONSTANTS Anchor, Item, None

Node == Anchor \cup Item

VARIABLES
    links,      \* [next, prev]: the two pointers of every head and item
    lists,      \* history: the items of every head
    stale,      \* history: items a cut_before dropped with their pointers
    walk        \* the state of one linked_list_foreach_entry_safe, or None

vars == <<links, lists, stale, walk>>

(***************************************************************************)
(* The functions of the header.                                            *)
(***************************************************************************)
\* a->next = b and b->prev = a, the pair of assignments they are made of.
Join(l, a, b) == [l EXCEPT !.next[a] = b, !.prev[b] = a]

create(l, x) == Join(l, x, x)

add(l, head, item) == Join(Join(l, item, l.next[head]), head, item)

add_tail(l, head, item) == Join(Join(l, l.prev[head], item), item, head)

del(l, item) == create(Join(l, l.prev[item], l.next[item]), item)

shift(l, head) == create(Join(l, head, l.next[l.next[head]]), l.next[head])

shift_tail(l, head) == del(l, l.prev[head])

empty(l, x) == l.next[x] = l.prev[x] /\ l.next[x] = x

move(l, to, item) == add(del(l, item), to, item)

move_tail(l, to, item) == add_tail(Join(l, l.prev[item], l.next[item]), to, item)

\* Point the neighbours of a at it; "take care of empty list case": after
\* the exchange an empty list still names the other head.
Relink(l, a, b) ==
    LET own  == IF l.next[a] = b THEN [l EXCEPT !.next[a] = a] ELSE l
        back == [own EXCEPT !.prev[own.next[a]] = a]
    IN [back EXCEPT !.next[back.prev[a]] = a]

swap(l, rhs, lhs) ==
    LET both == [l EXCEPT !.next[rhs] = l.next[lhs], !.prev[rhs] = l.prev[lhs],
                          !.next[lhs] = l.next[rhs], !.prev[lhs] = l.prev[rhs]]
    IN Relink(Relink(both, lhs, rhs), rhs, lhs)

\* Fault: the spliced part is not closed towards its new neighbour.
Faulty_splice(l, head1, head2) ==
    IF empty(l, head2) THEN l
    ELSE create([Join(l, head1, l.next[head2]) EXCEPT !.next[l.prev[head2]] = l.next[head1]], head2)

splice(l, head1, head2) ==
    IF empty(l, head2) THEN l
    ELSE create(Join(Join(l, l.prev[head2], l.next[head1]), head1, l.next[head2]), head2)

splice_tail(l, head1, head2) ==
    IF empty(l, head2) THEN l
    ELSE create(Join(Join(l, l.prev[head1], l.next[head2]), l.prev[head2], head1), head2)

\* item->prev is read after head1 took the first item: when there is
\* nothing before item that read is what makes head1 empty.
cut_before(l, head1, head2, item) ==
    IF l.next[head1] = item THEN create(l, head1)
    ELSE LET first == Join(l, head1, l.next[head2])
         IN Join(Join(first, first.prev[item], head1), head2, item)

\* linked_list_foreach and its reverse: the items met from head on, by the
\* pointers f; None ends a walk that does not come back to the head.
foreach(f, head) ==
    LET N == Cardinality(Item)
        at[i \in 0 .. N] == IF i = 0 THEN f[head] ELSE f[at[i - 1]]
        back == {i \in 0 .. N : at[i] = head}
    IN IF back = {} THEN <<None>> ELSE [i \in 1 .. Min(back) |-> at[i - 1]]
-----------------------------------------------------------------------------
(***************************************************************************)
(* The calls of a user of the header.                                      *)
(***************************************************************************)
Init ==
    /\ links = [next |-> [x \in Node |-> x], prev |-> [x \in Node |-> x]]
    /\ lists = [h \in Anchor |-> <<>>]
    /\ stale = {}
    /\ walk = None

Listed == UNION {ToSet(lists[h]) : h \in Anchor}

Position(seq, x) == CHOOSE i \in DOMAIN seq : seq[i] = x

Without(item) ==
    [h \in Anchor |-> IF item \in ToSet(lists[h]) THEN RemoveAt(lists[h], Position(lists[h], item))
                      ELSE lists[h]]

\* add, add_tail: an entry of no list.
Add(h, item) ==
    /\ item \notin Listed
    /\ \/ links' = add(links, h, item) /\ lists' = [lists EXCEPT ![h] = <<item>> \o @]
       \/ links' = add_tail(links, h, item) /\ lists' = [lists EXCEPT ![h] = Append(@, item)]
    /\ stale' = stale \ {item}

\* del, also of an entry that is in no list.
Delete(item) ==
    /\ item \notin stale
    /\ links' = del(links, item)
    /\ lists' = Without(item)
    /\ UNCHANGED stale

\* "@pre the list is not empty"
Shift(h) ==
    /\ lists[h] # <<>>
    /\ \/ links' = shift(links, h) /\ lists' = [lists EXCEPT ![h] = Tail(@)]
       \/ links' = shift_tail(links, h) /\ lists' = [lists EXCEPT ![h] = Front(@)]
    /\ UNCHANGED stale

Move(to, item) ==
    /\ item \notin stale
    /\ \/ links' = move(links, to, item) /\ lists' = [Without(item) EXCEPT ![to] = <<item>> \o @]
       \/ links' = move_tail(links, to, item) /\ lists' = [Without(item) EXCEPT ![to] = Append(@, item)]
    /\ UNCHANGED stale

Exchange(h, g) ==
    /\ h # g
    /\ links' = swap(links, h, g)
    /\ lists' = [lists EXCEPT ![h] = lists[g], ![g] = lists[h]]
    /\ UNCHANGED stale

Splice(h, g) ==
    /\ h # g
    /\ \/ links' = splice(links, h, g) /\ lists' = [lists EXCEPT ![h] = lists[g] \o @, ![g] = <<>>]
       \/ links' = splice_tail(links, h, g) /\ lists' = [lists EXCEPT ![h] = @ \o lists[g], ![g] = <<>>]
    /\ UNCHANGED stale

\* cut_before; x is an entry of the list, or its head for all of it.
Cut(h, g, x) ==
    /\ h # g
    /\ x \in ToSet(lists[g]) \cup {g}
    /\ links' = cut_before(links, h, g, x)
    /\ lists' = LET n == IF x = g THEN Len(lists[g]) ELSE Position(lists[g], x) - 1
                IN [lists EXCEPT ![h] = SubSeq(lists[g], 1, n),
                                 ![g] = SubSeq(lists[g], n + 1, Len(lists[g]))]
    /\ stale' = stale \cup ToSet(lists[h])

\* create, as an entry that was dropped must be before it is deleted.
Create(item) ==
    /\ item \in stale
    /\ links' = create(links, item)
    /\ stale' = stale \ {item}
    /\ UNCHANGED lists

\* foreach_entry_safe: the successor is read before the body runs, and the
\* body may keep the entry, delete it or move it to another list.
WalkStart(h) ==
    /\ walk' = [head |-> h, at |-> links.next[h], seen |-> <<>>, all |-> lists[h]]
    /\ UNCHANGED <<links, lists, stale>>

WalkStep ==
    /\ walk.at # walk.head
    /\ \/ UNCHANGED <<links, lists, stale>>
       \/ Delete(walk.at)
       \/ \E to \in Anchor \ {walk.head} : Move(to, walk.at)
    /\ walk' = [walk EXCEPT !.at = links.next[walk.at], !.seen = Append(@, walk.at)]

WalkEnd ==
    /\ walk.at = walk.head
    /\ walk' = None
    /\ UNCHANGED <<links, lists, stale>>

Next ==
    \/ /\ walk = None
       /\ UNCHANGED walk
       /\ \/ \E h \in Anchor, item \in Item : Add(h, item) \/ Move(h, item)
          \/ \E item \in Item : Delete(item) \/ Create(item)
          \/ \E h, g \in Anchor : Exchange(h, g) \/ Splice(h, g) \/ \E x \in Node : Cut(h, g, x)
          \/ \E h \in Anchor : Shift(h)
    \/ walk = None /\ \E h \in Anchor : WalkStart(h)
    \/ walk # None /\ (WalkStep \/ WalkEnd)

Spec == Init /\ [][Next]_vars
-----------------------------------------------------------------------------
(***************************************************************************)
(* Properties.                                                             *)
(***************************************************************************)
\* Whatever sequence of calls built them, both directions of every list
\* agree and meet exactly the items it should hold; "move the initial part
\* of list head2, up to but excluding item", "move all items", and the empty
\* cases of swap included.
ListsAgree ==
    /\ \A h \in Anchor : /\ foreach(links.next, h) = lists[h]
                       /\ foreach(links.prev, h) = Reverse(lists[h])
                       /\ empty(links, h) <=> lists[h] = <<>>
    /\ \A item \in Item \ (Listed \cup stale) : empty(links, item)

\* "foreach through all list entries safe against removal": the walk meets
\* every entry the list had when it began, in order, though the body takes
\* entries out of the list.
WalkMeetsAll ==
    walk # None => IF walk.at = walk.head THEN walk.seen = walk.all
                   ELSE IsPrefix(Append(walk.seen, walk.at), walk.all)

\* A list is what its calls made it, also under a walk that removes entries.
ListsInv == ListsAgree /\ WalkMeetsAll
=============================================================================

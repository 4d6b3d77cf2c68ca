----------------------------- MODULE MenuMerger -----------------------------
(***************************************************************************)
(* MenuMerger of menumodel-cpp: one exported GMenu that shows the items of *)
(* several menus one after the other, and follows their changes by         *)
(* positions that it keeps itself.                                         *)
(*                                                                         *)
(* A merger is [menus, start, items]: the menus in their order, the        *)
(* position at which it believes each of them to start, and the items it   *)
(* exports.  A menu, Menu or another merger, tells a change by a position, *)
(* the number of items removed there and the items added there.            *)
(***************************************************************************)
EXTENDS Integers, Sequences, FiniteSets, SequencesExt

\* GMenu: an insertion beyond the end appends, a removal beyond it does nothing.
Splice(items, at, removed, added) ==
    LET cut == Min({at, Len(items)})
    IN  SubSeq(items, 1, cut) \o added \o SubSeq(items, cut + removed + 1, Len(items))

NewMerger == [menus |-> <<>>, start |-> [menu \in {} |-> 0], items |-> <<>>]

\* The menus after the one that changed start elsewhere; a menu that is not merged is not heard.
itemsChanged(m, menu, at, removed, added) ==
    LET later == {m.menus[j] : j \in {k \in DOMAIN m.menus : \E i \in 1 .. k - 1 : m.menus[i] = menu}}
        shift == [n \in DOMAIN m.start |-> IF n \in later THEN Len(added) - removed ELSE 0]
    IN  IF menu \notin DOMAIN m.start THEN m
        ELSE [m EXCEPT !.items = Splice(@, m.start[menu] + at, removed, added),
                       !.start = [n \in DOMAIN @ |-> @[n] + shift[n]]]

\* content: the items of the new menu; lastSize: the number of items of the last one so far.
append(m, menu, content, lastSize) ==
    LET at == IF m.menus = <<>> THEN 0 ELSE m.start[Last(m.menus)] + lastSize
        known == [n \in DOMAIN m.start \cup {menu} |-> IF n = menu THEN at ELSE m.start[n]]
    IN  itemsChanged([m EXCEPT !.menus = Append(@, menu), !.start = known], menu, 0, 0, content)

remove(m, menu, size) ==
    LET emptied == itemsChanged(m, menu, 0, size, <<>>)
    IN  [emptied EXCEPT !.menus = SelectSeq(@, LAMBDA n : n # menu),
                        !.start = [n \in DOMAIN @ \ {menu} |-> @[n]]]

(* A merger in a merger: t = [inner, outer, name], where the inner one is   *)
(* the menu t.name of the outer one.                                        *)

NewNested(name) == [inner |-> NewMerger, outer |-> NewMerger, name |-> name]

InnerChanged(t, menu, at, removed, added) ==
    IF menu \notin DOMAIN t.inner.start THEN t
    ELSE [t EXCEPT !.inner = itemsChanged(@, menu, at, removed, added),
                   !.outer = itemsChanged(@, t.name, t.inner.start[menu] + at, removed, added)]

InnerAppended(t, menu, content, lastSize) ==
    LET inner == append(t.inner, menu, content, lastSize)
    IN  [t EXCEPT !.inner = inner, !.outer = itemsChanged(@, t.name, inner.start[menu], 0, content)]

InnerRemoved(t, menu, size) ==
    [t EXCEPT !.inner = remove(@, menu, size),
              !.outer = itemsChanged(@, t.name, t.inner.start[menu], size, <<>>)]
=============================================================================

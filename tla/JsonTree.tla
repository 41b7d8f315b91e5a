------------------------------ MODULE JsonTree ------------------------------
(***************************************************************************)
(* The items of cJSON.c: a heap of nodes linked by next, prev and child,   *)
(* with names and strings that are blocks of their own, and the functions  *)
(* that create, add, detach, insert, replace, delete, copy and compare     *)
(* them.  A function of the library is an operator on the heap; a call of  *)
(* it by the program is an action.  malloc fails when no cell is left, so  *)
(* every allocation fails in some behaviour.                               *)
(*                                                                         *)
(* The program keeps to what cJSON.h asks of it: it hands an item over     *)
(* once, never adds an item to itself, edits no reference, and deletes     *)
(* nothing that a reference it still has points to.                        *)
(***************************************************************************)
EXTENDS Integers, Sequences, FiniteSets

CONSTANTS
    NodeCount,    \* the nodes malloc has
    BlockCount,   \* the string blocks malloc has
    Texts,        \* the strings: 2k and 2k+1 differ in case only
    Kinds,        \* the kinds of item the program creates
    MaxCalls      \* bound on the calls of a behaviour

ASSUME JsonTreeAssumption ==
    /\ NodeCount \in Nat /\ BlockCount \in Nat /\ MaxCalls \in Nat
    /\ Texts \subseteq Nat
    /\ Kinds \subseteq {"null", "true", "number", "string", "raw", "array", "object"}

VARIABLES
    heap,      \* the cells of malloc and what they hold
    roots,     \* the items that the program owns: not in any list
    lost,      \* the items it handed over that were never put into a list
    unnamed,   \* an item was left without a name by a replacement
    calls      \* the number of calls

vars == <<heap, roots, lost, unnamed, calls>>

Nodes == 1..NodeCount
Blocks == 1..BlockCount
NULL == 0
Containers == {"array", "object"}

\* A char pointer: NULL, a block of the heap, or a constant of the program.
NoString == <<"null", 0>>
Const(t) == <<"const", t>>
Strings == {NoString} \cup {<<"heap", b>> : b \in Blocks} \cup {Const(t) : t \in Texts}

\* struct cJSON; number stands for valueint and valuedouble.
NewNode ==
    [type |-> "invalid", isReference |-> FALSE, stringIsConst |-> FALSE,
     next |-> NULL, prev |-> NULL, child |-> NULL,
     number |-> 0, valuestring |-> NoString, string |-> NoString]

\* ok turns FALSE when a cell is used or freed that malloc has not given out.
EmptyHeap ==
    [live |-> {}, node |-> [n \in Nodes |-> NewNode],
     used |-> {}, text |-> [b \in Blocks |-> 0], ok |-> TRUE]

Smallest(S) == CHOOSE x \in S : \A y \in S : x <= y
TextOf(h, s) == IF s[1] = "heap" THEN h.text[s[2]] ELSE s[2]
Set(h, n, f, v) == [h EXCEPT !.node[n][f] = v, !.ok = @ /\ n \in h.live]
Fault(h) == [h EXCEPT !.ok = FALSE]

\* The results of the library's functions: the heap and a pointer or a flag.
Out(h, r) == [h |-> h, r |-> r]

cJSON_New_Item(h) ==
    IF Nodes \ h.live = {} THEN Out(h, NULL)
    ELSE LET n == Smallest(Nodes \ h.live)
         IN  Out([h EXCEPT !.live = @ \cup {n}, !.node[n] = NewNode], n)

cJSON_strdup(h, s) ==
    IF s = NoString \/ Blocks \ h.used = {} THEN Out(h, NoString)
    ELSE LET b == Smallest(Blocks \ h.used)
         IN  Out([h EXCEPT !.used = @ \cup {b}, !.text[b] = TextOf(h, s)], <<"heap", b>>)

\* free of a string: a constant or a block that is free already is a fault.
FreeString(h, s) ==
    IF s = NoString THEN h
    ELSE IF s[1] = "heap" /\ s[2] \in h.used THEN [h EXCEPT !.used = @ \ {s[2]}, !.text[s[2]] = 0]
    ELSE Fault(h)

\* free of a node.
FreeNode(h, n) == [h EXCEPT !.live = @ \ {n}, !.node[n] = NewNode]

\* Mutant of FreeContents: the string of a reference is freed with it.
FreeContentsText(h, n, d) ==
    LET x == h.node[n]
        h1 == IF ~x.isReference /\ x.child # NULL THEN d ELSE h
        h2 == FreeString(h1, x.valuestring)
    IN  IF ~x.stringIsConst THEN FreeString(h2, x.string) ELSE h2

\* One turn of cJSON_Delete's loop before the node is freed: d is the heap after
\* its child was deleted.
FreeContents(h, n, d) ==
    LET x == h.node[n]
        h1 == IF ~x.isReference /\ x.child # NULL THEN d ELSE h
        h2 == IF ~x.isReference THEN FreeString(h1, x.valuestring) ELSE h1
    IN  IF ~x.stringIsConst THEN FreeString(h2, x.string) ELSE h2

RECURSIVE cJSON_Delete(_, _)
cJSON_Delete(h, n) ==
    IF n = NULL THEN h
    ELSE IF n \notin h.live THEN Fault(h)
    ELSE cJSON_Delete(FreeNode(FreeContents(h, n, cJSON_Delete(h, h.node[n].child)), n),
                      h.node[n].next)

-----------------------------------------------------------------------------
\* Reading a list.

RECURSIVE ItemsFrom(_, _)
ItemsFrom(h, n) == IF n = NULL \/ n \notin h.live THEN << >> ELSE <<n>> \o ItemsFrom(h, h.node[n].next)

\* The list of children; its length is what cJSON_GetArraySize returns.
Children(h, a) == ItemsFrom(h, h.node[a].child)

cJSON_GetArraySize(h, a) == Len(Children(h, a))

\* get_array_item: NULL beyond the end.
get_array_item(h, a, index) ==
    IF index < cJSON_GetArraySize(h, a) THEN Children(h, a)[index + 1] ELSE NULL

Folded(t) == t \div 2

\* strcmp, or case_insensitive_strcmp, which finds NULL different from everything.
SameName(h, s, t, case_sensitive) ==
    /\ s # NoString
    /\ IF case_sensitive THEN TextOf(h, s) = t ELSE Folded(TextOf(h, s)) = Folded(t)

\* The first member with that name.
get_object_item(h, o, t, case_sensitive) ==
    LET s == Children(h, o)
        hits == {k \in DOMAIN s : SameName(h, h.node[s[k]].string, t, case_sensitive)}
    IN  IF hits = {} THEN NULL ELSE s[Smallest(hits)]

\* strcmp is reached with a NULL name.
NameFault(h, o, t, case_sensitive) ==
    /\ case_sensitive
    /\ LET s == Children(h, o)
           hits == {k \in DOMAIN s : SameName(h, h.node[s[k]].string, t, TRUE)}
       IN  \E k \in DOMAIN s : /\ h.node[s[k]].string = NoString
                               /\ \A i \in hits : k < i

-----------------------------------------------------------------------------
\* Linking.

suffix_object(h, prev, item) == Set(Set(h, prev, "next", item), item, "prev", prev)

\* item == NULL is refused; the list has to be empty or is walked to its end.
add_item_to_array(h, array, item) ==
    LET s == Children(h, array)
    IN  IF item = NULL THEN Out(h, FALSE)
        ELSE IF s = << >> THEN Out(Set(h, array, "child", item), TRUE)
        ELSE Out(suffix_object(h, s[Len(s)], item), TRUE)

\* The item's old name is freed unless it is a constant.
Rename(h, item, name, constant_key) ==
    LET x == h.node[item]
        h1 == IF ~x.stringIsConst THEN FreeString(h, x.string) ELSE h
    IN  Set(Set(h1, item, "string", name), item, "stringIsConst", constant_key)

add_item_to_object(h, object, t, item, constant_key) ==
    LET d == cJSON_strdup(h, Const(t))
    IN  IF item = NULL THEN Out(h, FALSE)
        ELSE IF constant_key THEN add_item_to_array(Rename(h, item, Const(t), TRUE), object, item)
        ELSE IF d.r = NoString THEN Out(h, FALSE)
        ELSE add_item_to_array(Rename(d.h, item, d.r, FALSE), object, item)

\* A copy of the node that shares its child and its valuestring.
create_reference(h, item) ==
    LET n == cJSON_New_Item(h)
    IN  IF n.r = NULL THEN n
        ELSE Out([n.h EXCEPT !.node[n.r] =
                     [h.node[item] EXCEPT !.string = NoString, !.isReference = TRUE,
                                          !.next = NULL, !.prev = NULL]], n.r)

\* cJSON_DetachItemViaPointer.
Unlink(h, parent, item) ==
    LET x == h.node[item]
        h1 == IF x.prev # NULL THEN Set(h, x.prev, "next", x.next) ELSE h
        h2 == IF x.next # NULL THEN Set(h1, x.next, "prev", x.prev) ELSE h1
        h3 == IF item = h2.node[parent].child THEN Set(h2, parent, "child", x.next) ELSE h2
    IN  Set(Set(h3, item, "prev", NULL), item, "next", NULL)

\* cJSON_InsertItemInArray before the item after.
InsertBefore(h, array, after, newitem) ==
    LET x == h.node[after]
        h1 == Set(Set(h, newitem, "next", after), newitem, "prev", x.prev)
        h2 == Set(h1, after, "prev", newitem)
    IN  IF after = h2.node[array].child THEN Set(h2, array, "child", newitem)
        ELSE Set(h2, x.prev, "next", newitem)

\* cJSON_ReplaceItemViaPointer; the old item is deleted.
ReplaceViaPointer(h, parent, item, replacement) ==
    LET x == h.node[item]
        h1 == Set(Set(h, replacement, "next", x.next), replacement, "prev", x.prev)
        h2 == IF x.next # NULL THEN Set(h1, x.next, "prev", replacement) ELSE h1
        h3 == IF x.prev # NULL THEN Set(h2, x.prev, "next", replacement) ELSE h2
        h4 == IF h3.node[parent].child = item THEN Set(h3, parent, "child", replacement) ELSE h3
        h5 == Set(Set(h4, item, "next", NULL), item, "prev", NULL)
    IN  IF item = NULL THEN Out(h, FALSE)
        ELSE IF replacement = item THEN Out(h, TRUE)
        ELSE Out(cJSON_Delete(h5, item), TRUE)

-----------------------------------------------------------------------------
\* Creating.

\* cJSON_CreateNull, True, False, Bool: only the type tells them apart.
CreateConstant(h, kind) ==
    LET n == cJSON_New_Item(h)
    IN  IF n.r = NULL THEN n ELSE Out(Set(n.h, n.r, "type", kind), n.r)

cJSON_CreateNumber(h, num) ==
    LET n == cJSON_New_Item(h)
    IN  IF n.r = NULL THEN n
        ELSE Out(Set(Set(n.h, n.r, "type", "number"), n.r, "number", num), n.r)

\* Mutant of CreateText: the item stays when there is no memory for the string.
CreateTextKeep(h, kind, t) ==
    LET n == cJSON_New_Item(h)
        d == cJSON_strdup(Set(n.h, n.r, "type", kind), Const(t))
    IN  IF n.r = NULL THEN n
        ELSE IF d.r = NoString THEN Out(d.h, NULL)
        ELSE Out(Set(d.h, n.r, "valuestring", d.r), n.r)

\* cJSON_CreateString; cJSON_CreateRaw is the same with its own type.
CreateText(h, kind, t) ==
    LET n == cJSON_New_Item(h)
        d == cJSON_strdup(Set(n.h, n.r, "type", kind), Const(t))
    IN  IF n.r = NULL THEN n
        ELSE IF d.r = NoString THEN Out(cJSON_Delete(d.h, n.r), NULL)
        ELSE Out(Set(d.h, n.r, "valuestring", d.r), n.r)

\* cJSON_CreateStringReference of a constant.
cJSON_CreateStringReference(h, t) ==
    LET n == cJSON_New_Item(h)
        h1 == Set(Set(n.h, n.r, "type", "string"), n.r, "isReference", TRUE)
    IN  IF n.r = NULL THEN n ELSE Out(Set(h1, n.r, "valuestring", Const(t)), n.r)

\* cJSON_CreateObjectReference and cJSON_CreateArrayReference.
CreateContainerReference(h, kind, child) ==
    LET n == cJSON_New_Item(h)
        h1 == Set(Set(n.h, n.r, "type", kind), n.r, "isReference", TRUE)
    IN  IF n.r = NULL THEN n ELSE Out(Set(h1, n.r, "child", child), n.r)

\* cJSON_CreateArray, cJSON_CreateObject.
CreateContainer(h, kind) == CreateConstant(h, kind)

CreateItem(h, kind, t) ==
    CASE kind = "number" -> cJSON_CreateNumber(h, t)
      [] kind \in {"string", "raw"} -> CreateText(h, kind, t)
      [] kind \in Containers -> CreateContainer(h, kind)
      [] OTHER -> CreateConstant(h, kind)

\* The loop shared by cJSON_CreateIntArray, FloatArray, DoubleArray: c creates the
\* array, p is the item before.
RECURSIVE Fill(_, _, _, _, _)
Fill(h, a, p, kind, s) ==
    LET n == CreateItem(h, kind, Head(s))
        linked == IF p = NULL THEN Set(n.h, a, "child", n.r) ELSE suffix_object(n.h, p, n.r)
    IN  IF s = << >> THEN Out(h, a)
        ELSE IF n.r = NULL THEN Out(cJSON_Delete(n.h, a), NULL)
        ELSE Fill(linked, a, n.r, kind, Tail(s))

\* cJSON_CreateIntArray, cJSON_CreateFloatArray, cJSON_CreateDoubleArray.
CreateNumberArray(h, s) ==
    LET a == CreateContainer(h, "array")
    IN  IF a.r = NULL THEN a ELSE Fill(a.h, a.r, NULL, "number", s)

cJSON_CreateStringArray(h, s) ==
    LET a == CreateContainer(h, "array")
    IN  IF a.r = NULL THEN a ELSE Fill(a.h, a.r, NULL, "string", s)

-----------------------------------------------------------------------------
\* Copying and comparing.

\* Mutant of CopyNode: the copy of a reference is a reference.
CopyNodeReference(h, n, item) ==
    LET x == h.node[item]
    IN  [h EXCEPT !.node[n] = [NewNode EXCEPT !.type = x.type, !.number = x.number,
                                   !.stringIsConst = x.stringIsConst, !.isReference = x.isReference]]

\* cJSON_Duplicate's new item before its strings.
CopyNode(h, n, item) ==
    LET x == h.node[item]
    IN  [h EXCEPT !.node[n] = [NewNode EXCEPT !.type = x.type, !.number = x.number,
                                              !.stringIsConst = x.stringIsConst]]

\* The strings: a constant name is shared, the others are copied; r is FALSE when
\* there is no memory.
CopyStrings(h, n, item) ==
    LET x == h.node[item]
        v == cJSON_strdup(h, x.valuestring)
        h1 == Set(v.h, n, "valuestring", v.r)
        k == IF x.stringIsConst THEN Out(h1, x.string) ELSE cJSON_strdup(h1, x.string)
        h2 == Set(k.h, n, "string", k.r)
    IN  IF x.valuestring # NoString /\ v.r = NoString THEN Out(h, FALSE)
        ELSE Out(h2, x.string = NoString \/ k.r # NoString)

RECURSIVE CopyList(_, _, _, _), cJSON_Duplicate(_, _, _)

\* The loop over the children c of the original; next is the copy before.
CopyList(h, newitem, next, c) ==
    LET d == cJSON_Duplicate(h, c, TRUE)
        linked == IF next = NULL THEN Set(d.h, newitem, "child", d.r) ELSE suffix_object(d.h, next, d.r)
    IN  IF c = NULL THEN Out(h, TRUE)
        ELSE IF d.r = NULL THEN Out(d.h, FALSE)
        ELSE CopyList(linked, newitem, d.r, h.node[c].next)

cJSON_Duplicate(h, item, recurse) ==
    LET n == cJSON_New_Item(h)
        s == CopyStrings(CopyNode(n.h, n.r, item), n.r, item)
        l == CopyList(s.h, n.r, NULL, h.node[item].child)
    IN  IF n.r = NULL THEN n
        ELSE IF ~s.r THEN Out(cJSON_Delete(s.h, n.r), NULL)
        ELSE IF ~recurse THEN Out(s.h, n.r)
        ELSE IF ~l.r THEN Out(cJSON_Delete(l.h, n.r), NULL)
        ELSE Out(l.h, n.r)

RECURSIVE cJSON_Compare(_, _, _, _)

\* Every member of a has an equal member of the same name in b.
CompareMembers(h, a, b, case_sensitive) ==
    \A k \in DOMAIN Children(h, a) :
        LET x == Children(h, a)[k]
            name == h.node[x].string
            y == get_object_item(h, b, TextOf(h, name), case_sensitive)
        IN  name # NoString /\ y # NULL /\ cJSON_Compare(h, x, y, case_sensitive)

cJSON_Compare(h, a, b, case_sensitive) ==
    LET x == h.node[a]
        y == h.node[b]
        Equal(p, q) == cJSON_Compare(h, p, q, case_sensitive)
        s == Children(h, a)
        t == Children(h, b)
    IN  /\ x.type = y.type /\ x.type # "invalid"
        /\ \/ a = b
           \/ CASE x.type = "number" -> x.number = y.number
                [] x.type \in {"string", "raw"} ->
                      /\ x.valuestring # NoString /\ y.valuestring # NoString
                      /\ TextOf(h, x.valuestring) = TextOf(h, y.valuestring)
                [] x.type = "array" -> Len(s) = Len(t) /\ \A k \in DOMAIN s : Equal(s[k], t[k])
                [] x.type = "object" -> /\ CompareMembers(h, a, b, case_sensitive)
                                        /\ CompareMembers(h, b, a, case_sensitive)
                [] OTHER -> TRUE

-----------------------------------------------------------------------------
\* What the program may do with its items.

RECURSIVE Below(_, _)
\* The items of a tree, without following references.
Below(h, n) ==
    {n} \cup IF h.node[n].isReference THEN {}
             ELSE UNION {Below(h, c) : c \in {Children(h, n)[k] : k \in DOMAIN Children(h, n)}}

Owned(h, n) == {s \in {h.node[m].valuestring : m \in {k \in Below(h, n) : ~h.node[k].isReference}} : s[1] = "heap"}

\* No reference outside the tree of n points into it.
Deletable(n) ==
    \A m \in heap.live \ Below(heap, n) :
        heap.node[m].isReference =>
            /\ heap.node[m].child \notin Below(heap, n)
            /\ heap.node[m].valuestring \notin Owned(heap, n)

InTrees == UNION {Below(heap, r) : r \in roots}
Editable == {n \in InTrees : heap.node[n].type \in Containers /\ ~heap.node[n].isReference}
Arrays == {n \in Editable : heap.node[n].type = "array"}
Objects == {n \in Editable : heap.node[n].type = "object"}

\* An item the program owns and may add to c.
Addable(c) == {i \in roots : c \notin Below(heap, i)}

\* The program goes on, unless it has crashed.
Going == heap.ok /\ calls < MaxCalls

\* A call that leaves the heap h, and the items rs to the program.
Call(h, rs) ==
    /\ heap' = h
    /\ roots' = rs
    /\ calls' = calls + 1

NewRoot(o) == IF o.r = NULL THEN roots ELSE roots \cup {o.r}
Keep == UNCHANGED <<lost, unnamed>>

-----------------------------------------------------------------------------

Init ==
    /\ heap = EmptyHeap
    /\ roots = {}
    /\ lost = {}
    /\ unnamed = FALSE
    /\ calls = 0

Create == Going /\ \E kind \in Kinds, t \in Texts :
    LET o == CreateItem(heap, kind, t) IN Call(o.h, NewRoot(o)) /\ Keep

CreateReference ==
    /\ Going
    /\ \/ \E t \in Texts : LET o == cJSON_CreateStringReference(heap, t) IN Call(o.h, NewRoot(o))
       \/ \E c \in Editable :
              /\ heap.node[c].child # NULL
              /\ LET o == CreateContainerReference(heap, heap.node[c].type, heap.node[c].child)
                 IN  Call(o.h, NewRoot(o))
    /\ Keep

CreateArrayOf == Going /\ \E t \in Texts, kind \in {"number", "string"} :
    LET o == IF kind = "number" THEN CreateNumberArray(heap, <<t, t>>)
             ELSE cJSON_CreateStringArray(heap, <<t, t>>)
    IN  Call(o.h, NewRoot(o)) /\ Keep

cJSON_AddItemToArray == Going /\ \E a \in Arrays : \E i \in Addable(a) :
    Call(add_item_to_array(heap, a, i).h, roots \ {i}) /\ Keep

\* The caller is not told when there is no memory for the name.
cJSON_AddItemToObject == Going /\ \E o \in Objects, t \in Texts, constant_key \in BOOLEAN : \E i \in Addable(o) :
    LET x == add_item_to_object(heap, o, t, i, constant_key)
    IN  /\ Call(x.h, roots \ {i})
        /\ lost' = IF x.r THEN lost ELSE lost \cup {i}
        /\ UNCHANGED unnamed

cJSON_AddItemReferenceToArray == Going /\ \E a \in Arrays, i \in InTrees :
    /\ a \notin Below(heap, i)
    /\ LET n == create_reference(heap, i)
       IN  Call(add_item_to_array(n.h, a, n.r).h, roots)
    /\ Keep

\* The reference stays behind when there is no memory for its name.
cJSON_AddItemReferenceToObject == Going /\ \E o \in Objects, i \in InTrees, t \in Texts :
    /\ o \notin Below(heap, i)
    /\ LET n == create_reference(heap, i)
           x == add_item_to_object(n.h, o, t, n.r, FALSE)
       IN  /\ Call(x.h, roots)
           /\ lost' = IF n.r = NULL \/ x.r THEN lost ELSE lost \cup {n.r}
    /\ UNCHANGED unnamed

\* cJSON_AddNullToObject and its kin: a new item, deleted when it cannot be added.
AddNewToObject == Going /\ \E o \in Objects, t \in Texts, kind \in Kinds :
    LET n == CreateItem(heap, kind, t)
        x == add_item_to_object(n.h, o, t, n.r, FALSE)
    IN  Call(IF x.r THEN x.h ELSE cJSON_Delete(x.h, n.r), roots) /\ Keep

\* cJSON_DetachItemFromArray.
DetachFromArray == Going /\ \E a \in Editable : \E k \in 0..cJSON_GetArraySize(heap, a) :
    LET i == get_array_item(heap, a, k)
    IN  /\ i # NULL
        /\ Call(Unlink(heap, a, i), roots \cup {i})
        /\ Keep

\* cJSON_DetachItemFromObject and its case sensitive form.
DetachFromObject == Going /\ \E o \in Objects, t \in Texts, case_sensitive \in BOOLEAN :
    LET i == get_object_item(heap, o, t, case_sensitive)
    IN  /\ Keep
        /\ IF NameFault(heap, o, t, case_sensitive) THEN Call(Fault(heap), roots)
           ELSE i # NULL /\ Call(Unlink(heap, o, i), roots \cup {i})

\* cJSON_DeleteItemFromArray.
DeleteFromArray == Going /\ \E a \in Editable : \E k \in 0..cJSON_GetArraySize(heap, a) :
    LET i == get_array_item(heap, a, k)
    IN  /\ i # NULL /\ Deletable(i)
        /\ Call(cJSON_Delete(Unlink(heap, a, i), i), roots)
        /\ Keep

\* cJSON_DeleteItemFromObject and its case sensitive form.
DeleteFromObject == Going /\ \E o \in Objects, t \in Texts, case_sensitive \in BOOLEAN :
    LET i == get_object_item(heap, o, t, case_sensitive)
    IN  /\ Keep
        /\ IF NameFault(heap, o, t, case_sensitive) THEN Call(Fault(heap), roots)
           ELSE i # NULL /\ Deletable(i) /\ Call(cJSON_Delete(Unlink(heap, o, i), i), roots)

cJSON_InsertItemInArray == Going /\ \E a \in Arrays : \E k \in 0..cJSON_GetArraySize(heap, a), i \in Addable(a) :
    LET after == get_array_item(heap, a, k)
    IN  /\ Call(IF after = NULL THEN add_item_to_array(heap, a, i).h
                ELSE InsertBefore(heap, a, after, i), roots \ {i})
        /\ Keep

\* The replacement for an index that does not exist stays with the caller.
cJSON_ReplaceItemInArray == Going /\ \E a \in Arrays : \E k \in 0..cJSON_GetArraySize(heap, a), i \in Addable(a) :
    LET item == get_array_item(heap, a, k)
        x == ReplaceViaPointer(heap, a, item, i)
    IN  /\ item # NULL /\ Deletable(item)
        /\ Call(x.h, roots \ {i})
        /\ Keep

\* replace_item_in_object: TRUE is returned even when no member has the name, and
\* the name may be left NULL.
ReplaceInObject == Going /\ \E o \in Objects, t \in Texts, case_sensitive \in BOOLEAN : \E i \in Addable(o) :
    LET x == heap.node[i]
        freed == IF x.stringIsConst THEN heap ELSE FreeString(heap, x.string)
        d == cJSON_strdup(freed, Const(t))
        h == Set(Set(d.h, i, "string", d.r), i, "stringIsConst", FALSE)
        item == get_object_item(h, o, t, case_sensitive)
        r == ReplaceViaPointer(h, o, item, i)
    IN  IF NameFault(h, o, t, case_sensitive) THEN Call(Fault(h), roots) /\ Keep
        ELSE /\ item # NULL => Deletable(item)
             /\ Call(r.h, roots \ {i})
             /\ lost' = IF r.r THEN lost ELSE lost \cup {i}
             /\ unnamed' = (unnamed \/ (r.r /\ d.r = NoString))

Duplicate == Going /\ \E n \in InTrees, recurse \in BOOLEAN :
    LET d == cJSON_Duplicate(heap, n, recurse)
    IN  Call(d.h, NewRoot(d)) /\ Keep

Delete == Going /\ \E r \in roots :
    /\ Deletable(r)
    /\ Call(cJSON_Delete(heap, r), roots \ {r})
    /\ Keep

Next ==
    \/ Create \/ CreateReference \/ CreateArrayOf
    \/ cJSON_AddItemToArray \/ cJSON_AddItemToObject
    \/ cJSON_AddItemReferenceToArray \/ cJSON_AddItemReferenceToObject \/ AddNewToObject
    \/ DetachFromArray \/ DetachFromObject \/ DeleteFromArray \/ DeleteFromObject
    \/ cJSON_InsertItemInArray \/ cJSON_ReplaceItemInArray \/ ReplaceInObject
    \/ Duplicate \/ Delete

Spec == Init /\ [][Next]_vars

-----------------------------------------------------------------------------

\* The type invariant: links and strings are cells, and what the program owns, or the
\* library lost, is allocated.
TypeOK ==
    /\ heap.live \subseteq Nodes /\ heap.used \subseteq Blocks
    /\ roots \subseteq heap.live
    /\ lost \subseteq heap.live
    /\ \A n \in heap.live : /\ heap.node[n].next \in {NULL} \cup Nodes
                           /\ heap.node[n].string \in Strings
                           /\ heap.node[n].valuestring \in Strings

\* No call uses or frees a cell that is not allocated, unless a replacement that
\* ran out of memory left a member without a name for strcmp to find
\* (replace_item_in_object ignores the result of cJSON_strdup).
NoFault == heap.ok \/ unnamed

\* The lists are linked both ways: what follows an item has it before, and an item
\* the program owns, like the first of a list, has nothing before it.
ListsLinked ==
    /\ \A n \in heap.live :
          LET x == heap.node[n]
          IN  /\ x.next # NULL => x.next \in heap.live /\ heap.node[x.next].prev = n
              /\ x.prev # NULL => x.prev \in heap.live /\ heap.node[x.prev].next = n
              /\ x.child # NULL /\ ~x.isReference => heap.node[x.child].prev = NULL
    /\ \A n \in roots : heap.node[n].next = NULL /\ heap.node[n].prev = NULL

\* The invariant of the heap every call of cJSON leaves behind.
TreeInv == TypeOK /\ NoFault /\ ListsLinked

RECURSIVE DeleteAll(_, _)
DeleteAll(h, S) ==
    IF S = {} THEN h ELSE DeleteAll(cJSON_Delete(h, Smallest(S)), S \ {Smallest(S)})

\* Deleting what the program owns, and what the library lost for it, frees every
\* cell exactly once: no item or string is in two trees or in none.
EverythingFreed ==
    LET h == DeleteAll(heap, roots \cup lost)
    IN  heap.ok => h.ok /\ h.live = {} /\ h.used = {}

DistinctNames(n) ==
    \A m \in Below(heap, n) :
        LET s == Children(heap, m)
        IN  heap.node[m].type = "object" =>
               \A i, j \in DOMAIN s :
                   /\ heap.node[s[i]].string # NoString
                   /\ i # j => TextOf(heap, heap.node[s[i]].string) # TextOf(heap, heap.node[s[j]].string)

\* A copy of a tree compares equal to it when no object has two members of one
\* name, and neither shares a cell with the other.
CopyEqual ==
    \A n \in InTrees :
        LET d == cJSON_Duplicate(heap, n, TRUE)
        IN  heap.ok /\ d.r # NULL =>
               /\ DistinctNames(n) => cJSON_Compare(d.h, d.r, n, TRUE)
               /\ LET g == cJSON_Delete(d.h, d.r)
                  IN  g.ok /\ g.live = heap.live /\ g.used = heap.used
=============================================================================

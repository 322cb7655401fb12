----------------------------- MODULE ACAutomaton -----------------------------
(***************************************************************************)
(* The automaton of src/strmatcher/ac_automaton_matcher.go: a trie of      *)
(* patterns read from their ends, whose missing edges Build fills. Texts   *)
(* are sequences of characters; the table has a few of the program's.      *)
(***************************************************************************)
EXTENDS Sifting, SequencesExt

(* Upper and lower case share an index. An entry that Go's array literal   *)
(* does not name, "/" for one, is 0, the index of the letter a. What is    *)
(* not in the table is wider than it.                                      *)
Char2Index ==
    [c \in {"a", "A", "/", "b", "B", "."} |->
        IF c = "." THEN 40 ELSE IF c \in {"b", "B"} THEN 1 ELSE 0]

InOrder == <<0, 1, 40>>

Indexes == {0, 1, 40}

InTable(text) == \A i \in DOMAIN text : text[i] \in DOMAIN Char2Index

NewNode == [i \in Indexes |-> [trieEdge |-> FALSE, next |-> 0]]

NotThere == [type |-> "full", exist |-> FALSE]

NewACAutomaton ==
    [trie |-> [n \in 0 .. 0 |-> NewNode], fail |-> [n \in 0 .. 0 |-> 0],
     exists |-> [n \in 0 .. 0 |-> NotThere], count |-> 0]

-----------------------------------------------------------------------------
(* The automaton with an edge from node by index i; a new node if none is. *)
WithEdge(ac, node, i) ==
    IF ac.trie[node][i].next # 0 THEN ac
    ELSE LET new == ac.count + 1
             More(f, x) == [n \in 0 .. new |-> IF n = new THEN x ELSE f[n]]
         IN  [trie   |-> More([ac.trie EXCEPT ![node][i] =
                                 [trieEdge |-> TRUE, next |-> new]], NewNode),
              fail   |-> More(ac.fail, 0),
              exists |-> More(ac.exists, NotThere),
              count  |-> new]

Down(w, i) ==
    LET grown == WithEdge(w.ac, w.node, i)
    IN  [ac |-> grown, node |-> grown.trie[w.node][i].next]

Mark(w, type) ==
    [w EXCEPT !.ac.exists[w.node] = [type |-> type, exist |-> TRUE]]

(* Add, of a text that is in the table. *)
ACAdd(ac, text, type) ==
    LET end == Fold(LAMBDA w, c : Down(w, Char2Index[c]), [ac |-> ac, node |-> 0],
                    Reverse(text))
    IN  IF type = "domain"
        THEN Mark(Down(Mark(end, "full"), Char2Index["."]), "domain").ac
        ELSE Mark(end, type).ac

(* Build: a queue of nodes, breadth first. A child fails to where the node *)
(* its parent fails to goes by the same index.                             *)
Children(ac, node) ==
    Sifted(InOrder, {i \in Indexes : ac.trie[node][i].next # 0})

FailOf(ac, node, i) == ac.trie[ac.fail[node]][i].next

Pop(s) ==
    LET node == Head(s.queue)
        kids == Children(s.ac, node)
        To(i) == s.ac.trie[node][i].next
    IN  [queue |-> Tail(s.queue) \o [k \in DOMAIN kids |-> To(kids[k])],
         ac |-> [s.ac EXCEPT
            !.fail = [n \in DOMAIN @ |->
                        IF \E k \in DOMAIN kids : To(kids[k]) = n
                        THEN FailOf(s.ac, node, CHOOSE i \in Indexes : To(i) = n)
                        ELSE @[n]],
            !.trie[node] = [i \in Indexes |->
                        IF To(i) # 0 THEN @[i]
                        ELSE [trieEdge |-> FALSE, next |-> FailOf(s.ac, node, i)]]]]

(* In a trie every node is popped once. If the queue is not empty then,    *)
(* the automaton was built before: each of its nodes has an edge by the    *)
(* first index of a pattern, so every pop pushes a node and none is last.  *)
BuildRun(ac) ==
    LET roots == Children(ac, 0)
        run[k \in 0 .. ac.count] ==
            IF k = 0 THEN [ac |-> ac, queue |-> [j \in DOMAIN roots |->
                                                   ac.trie[0][roots[j]].next]]
            ELSE IF run[k - 1].queue = << >> THEN run[k - 1]
            ELSE Pop(run[k - 1])
    IN  run[ac.count]

BuildEnds(ac) == BuildRun(ac).queue = << >>

ACBuild(ac) == BuildRun(ac).ac

(* Match: a character outside the table ends it; so does a Substr node, or *)
(* a Domain node reached through edges of the trie only.                   *)
ACMatch(ac, s) ==
    LET Step(w, c) ==
            IF w.found # "open" THEN w
            ELSE IF c \notin DOMAIN Char2Index THEN [w EXCEPT !.found = "no"]
            ELSE LET edge == ac.trie[w.node][Char2Index[c]]
                     full == w.full /\ edge.trieEdge
                     type == ac.exists[edge.next].type
                 IN  [node |-> edge.next, full |-> full,
                      found |-> IF type = "substr" \/ (type = "domain" /\ full)
                                THEN "yes" ELSE "open"]
        end == Fold(Step, [node |-> 0, full |-> TRUE, found |-> "open"], Reverse(s))
    IN  \/ end.found = "yes"
        \/ end.found = "open" /\ end.full /\ ac.exists[end.node].exist
=============================================================================

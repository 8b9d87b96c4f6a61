------------------------------ MODULE MCWorkspace ------------------------------
EXTENDS Workspace, StepValues, Chunking, TLC

CONSTANTS u1, u2, u3, c1, c2, d1, d2, e1, e2, short, long, m1, m2, t1, t2, r1, s1, s2, s3

SizeOf == (short :> 1) @@ (long :> 2)

Symmetry ==
  Permutations(Users) \cup Permutations(Calls) \cup Permutations(Editors) \cup Permutations(Tabs)

(* Definitions of four steps, in every shape but for what follows: the first *)
(* leads on, the third may lead back, the last is no condition, and at most  *)
(* one step refers to another.                                               *)
Id == [i \in 1..4 |-> <<"SET_VALUE", i>>]
After(i) == {Id[j] : j \in i + 1..4}
Shapes(types, targets) ==
  [type : types, next : {<<>>} \cup {<<x>> : x \in targets}]
    \cup [type : {"CONDITION"}, next : targets \X targets]
FirstShapes == {s \in Shapes({"SET_VALUE"}, After(1)) : s.next # <<>>}
SecondShapes == Shapes({"SET_VALUE", "APPROVAL", "INTEGRATION_ACTION"}, After(2))
ThirdShapes == Shapes({"SET_VALUE", "APPROVAL", "INTEGRATION_ACTION"}, After(3))
           \cup {[type |-> "APPROVAL", next |-> <<Id[2]>>]}
LastShapes == [type : {"SET_VALUE", "INTEGRATION_ACTION"}, next : {<<>>}]
NoRefs == [i \in 1..4 |-> {}]
Refs == {NoRefs} \cup {[NoRefs EXCEPT ![4] = {x}] : x \in {Id[2], Id[3]}}
          \cup {[NoRefs EXCEPT ![2] = {Id[3]}]}
Define(shapes, refs) ==
  [entry |-> Id[1],
   steps |-> [i \in 1..4 |-> [id |-> Id[i], type |-> shapes[i].type, next |-> shapes[i].next,
                             refs |-> refs[i]]]]
SomeDefinitions == {Define(s, r) : s \in FirstShapes \X SecondShapes \X ThirdShapes \X LastShapes, r \in Refs}

(* Values of up to three levels; paths of up to two segments                 *)
Scalars == {Null, [number |-> 1], [number |-> 2], [string |-> "a"]}
Nest(of) ==
  {[array |-> <<>>]} \cup {[array |-> <<v>>] : v \in of} \cup {[array |-> <<v, Null>>] : v \in of}
    \cup {[object |-> "x" :> v] : v \in of}
    \cup {[object |-> ("x" :> v) @@ ("__proto__" :> Null)] : v \in of}
SomeValues == Scalars \cup Nest(Scalars) \cup Nest(Nest(Scalars)) \cup Nest(Nest(Nest({Null})))
Segments == {"x", "0", "2", "length", "toString", "__proto__"}
SomePaths == {<<>>} \cup {<<s>> : s \in Segments} \cup (Segments \X Segments)

SomeParagraphs == UNION {[1..n -> {"letter", Blank}] : n \in 1..6}
SomeSizes == (1..5) \X (0..4)
Lengths == 0..2
Empty == [status |-> 0, body |-> "none", vectors |-> <<>>]
SomeExchanges ==
  {[net |-> n] @@ Empty : n \in {"abort", "lost"}}
    \cup [net : {"ok"}, status : {404, 500}, body : {"none"}, vectors : {<<>>}]
    \cup [net : {"ok"}, status : {200}, body : {"garbled", "missing"}, vectors : {<<>>}]
    \cup [net : {"ok"}, status : {200}, body : {"read"},
          vectors : {<<>>, <<1>>, <<1, 1>>, <<1, 2>>, <<1, 1, 1>>}]

(* Bounds of the model: three users join once, or of two one joins twice;    *)
(* the founder is the only member, and one request at most is about, when a  *)
(* brand or a workflow is created, which are not worked on at one time; and  *)
(* an accepted definition is run where nothing else has happened.            *)
Joined(n) == {u \in Users : member[u].id >= n}
FewJoin == Joined(2) = {} \/ (Cardinality(Joined(2)) = 1 /\ Cardinality(Joined(1)) = 2)
Active == {c \in Calls : call[c] # NoCall}
Settled ==
  /\ Cardinality(Joined(1)) <= 1
  /\ Cardinality(Active) <= 1 /\ \A c \in Active : call[c].op = "delete"
WorkspaceBound ==
  \/ walk = NoWalk /\ MembersFirst /\ FewJoin
  \/ walk = NoWalk /\ Settled /\ (workflow.status = "none" \/ brand = "none")
  \/ MembershipInit /\ KnowledgeInit /\ DefinitionsInit
===============================================================================

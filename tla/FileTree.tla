---------------------------- MODULE FileTree ----------------------------
(* What TinyFS promises: a tree of files and directories addressed by    *)
(* path.  Every operation either happens as a whole or changes nothing,  *)
(* and it says which; when the machine stops in the middle of one, the   *)
(* tree found at the next boot is the one before it or the one after it. *)
EXTENDS Integers, Sequences, FiniteSets, FiniteSetsExt

CONSTANTS
    Paths,      \* the paths, as sequences of names, closed under prefixes
    Contents,   \* what a file can be written to hold
    MAX_FILES   \* how many entries the root directory takes

VARIABLES
    tree,       \* what each path names
    res         \* the answer to the last operation

treeVars == <<tree, res>>

Nothing == [kind |-> "none", data |-> <<>>]
Dir == [kind |-> "dir", data |-> <<>>]
File(c) == [kind |-> "file", data |-> c]

Empty == [p \in Paths |-> Nothing]

Exists(p) == tree[p] # Nothing

ChildrenOf(p) == {q \in Paths : Len(q) = Len(p) + 1 /\ SubSeq(q, 1, Len(p)) = p /\ Exists(q)}

(* The lengths of the prefixes of p on which the walk to its parent stops. *)
Broken(p) == {i \in 1 .. Len(p) - 1 : tree[SubSeq(p, 1, i)] # Dir}

WalkAnswer(p) ==
    CASE Broken(p) = {} -> "Ok"
      [] Broken(p) # {} /\ ~Exists(SubSeq(p, 1, Min(Broken(p)))) -> "NotFound"
      [] OTHER -> "NotADirectory"

RootFull(p) == Len(p) = 1 /\ Cardinality(ChildrenOf(<<>>)) >= MAX_FILES

WriteAnswer(p) ==
    CASE ~Exists(p) /\ RootFull(p) -> "DirectoryFull"
      [] tree[p] = Dir -> "NotADirectory"
      [] OTHER -> "Ok"

CreateAnswer(p) ==
    CASE Exists(p) -> "AlreadyExists"
      [] RootFull(p) -> "DirectoryFull"
      [] OTHER -> "Ok"

RemoveAnswer(p) ==
    CASE ~Exists(p) -> "NotFound"
      [] tree[p] = Dir -> "IsDirectory"
      [] OTHER -> "Ok"

RemoveDirAnswer(p) ==
    CASE ~Exists(p) -> "NotFound"
      [] tree[p] # Dir -> "IsFile"
      [] ChildrenOf(p) # {} -> "DirectoryNotEmpty"
      [] OTHER -> "Ok"

(* An operation that would make p name node, with the answer the walk and  *)
(* then the operation's own conditions give.                               *)
Operation(p, answer, node) ==
    LET due == IF WalkAnswer(p) = "Ok" THEN answer ELSE WalkAnswer(p)
        done == [tree EXCEPT ![p] = node]
    IN  \/ res' = "Ok" /\ due = "Ok" /\ tree' = done
        \/ res' = due /\ due # "Ok" /\ tree' = tree
        \/ res' = "NoSpace" /\ WalkAnswer(p) = "Ok" /\ tree' = tree
        \/ res' = "Crash" /\ tree' \in {tree} \union (IF due = "Ok" THEN {done} ELSE {})

Boot == tree' = tree /\ res' \in {"Mounted", "Crash"}

Init == tree = Empty /\ res = "Crash"

Next ==
    \/ Boot
    \/ \E p \in Paths :
          \/ \E c \in Contents : Operation(p, WriteAnswer(p), File(c))
          \/ Operation(p, CreateAnswer(p), File(<<>>))
          \/ Operation(p, CreateAnswer(p), Dir)
          \/ Operation(p, RemoveAnswer(p), Nothing)
          \/ Operation(p, RemoveDirAnswer(p), Nothing)

Spec == Init /\ [][Next]_treeVars
=========================================================================

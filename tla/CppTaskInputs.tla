--------------------------- MODULE CppTaskInputs ---------------------------
(***************************************************************************)
(* The constructor of the C++ worker's TaskHandler reads the payload and   *)
(* the data dependencies of the task, one file after the other, through    *)
(* one std::ostringstream.  `stream << file.rdbuf()` that inserts nothing  *)
(* sets failbit, and a stream with failbit set ignores every insertion;    *)
(* `stream.str("")` empties its buffer and leaves its state alone.         *)
(* The content of a file is a sequence of its own name.                    *)
(***************************************************************************)
EXTENDS Naturals, Sequences

CONSTANTS Payload,      \* request.payload_id()
          Deps,         \* ids of data dependencies, Payload not among them
          MaxDeps       \* bound: request.data_dependencies_size()

VARIABLES disk,         \* disk[f]: content of a file of the data folder,
                        \* <<>> also when there is none
          order,        \* request.data_dependencies()
          read,         \* files read so far
          buffer, failbit,   \* the string stream
          payload, deps      \* payload_ and data_dependencies_

vars == <<disk, order, read, buffer, failbit, payload, deps>>

Files == Deps \cup {Payload}
Unread == <<"unread">>

Init ==
  /\ \E full \in SUBSET Files : disk = [f \in Files |-> IF f \in full THEN <<f>> ELSE <<>>]
  /\ order \in UNION { [1 .. n -> Deps] : n \in 0 .. MaxDeps }
  /\ read = 0
  /\ buffer = <<>>
  /\ failbit = FALSE
  /\ payload = Unread
  /\ deps = [d \in Deps |-> Unread]

\* stream.str() after `stream << file.rdbuf()`
Inserted(f) == IF failbit THEN buffer ELSE buffer \o disk[f]

\* stream.str("")
Cleared(s) == <<>>

Insert(f) ==
  /\ buffer' = Cleared(Inserted(f))
  /\ failbit' = (failbit \/ disk[f] = <<>>)
  /\ read' = read + 1
  /\ UNCHANGED <<disk, order>>

ReadPayload ==
  /\ read = 0
  /\ payload' = Inserted(Payload)
  /\ Insert(Payload)
  /\ UNCHANGED deps

ReadDependency ==
  /\ read \in 1 .. Len(order)
  /\ deps' = [deps EXCEPT ![order[read]] = Inserted(order[read])]
  /\ Insert(order[read])
  /\ UNCHANGED payload

Next == ReadPayload \/ ReadDependency

Spec == Init /\ [][Next]_vars

-----------------------------------------------------------------------------
Constructed == read > Len(order)

\* The map that getDataDependencies gives the user holds, for each id, the
\* content of the file of that id.
DependenciesAreTheFiles ==
  Constructed => \A i \in 1 .. Len(order) : deps[order[i]] = disk[order[i]]

NoneEmpty ==
  disk[Payload] # <<>> /\ \A i \in 1 .. Len(order) : disk[order[i]] # <<>>

\* What the user gets is never the content of another file, nor that of
\* several files: the payload is the payload's, and a dependency is its own
\* file's content or, once an empty or missing file was met, nothing.  If
\* no file is empty or missing, nothing is lost.
NeverMixed ==
  /\ payload \in {Unread, disk[Payload]}
  /\ \A d \in Deps : deps[d] \in {Unread, disk[d], <<>>}
  /\ NoneEmpty => DependenciesAreTheFiles
=============================================================================

--------------------------- MODULE MCSimDispatch ---------------------------
(* Small instances of SimDispatch.  A word is 2 units and the alignments 4,  *)
(* so a table entry, an aligned address and a cell are all different things. *)
EXTENDS SimDispatch

Image(addr, start, outputs, zeroed) ==
    [request_addr |-> addr, heap_start |-> start, heap_end |-> 14,
     outputs |-> outputs, zeroed |-> zeroed, loads |-> TRUE,
     abi_matches |-> TRUE, has_library |-> TRUE, exports |-> 1]

MCImages ==
    [zeroing |-> Image("A", 2, {2}, {"request", "exception_info"}),
     keeping |-> Image("B", 3, {1}, {}),
     broken |-> [Image("A", 2, {}, {}) EXCEPT !.loads = FALSE],
     old_abi |-> [Image("A", 2, {}, {}) EXCEPT !.abi_matches = FALSE],
     no_library |-> [Image("A", 2, {}, {}) EXCEPT !.has_library = FALSE]]

MCBuffers == [weights |-> [c \in 0 .. 1 |-> 11 + c],
              data |-> [c \in 0 .. 2 |-> 21 + c]]

\* `weights` twice and the whole of `data` outgrow the small DDR.
Bind(buffer, offset, length) ==
    [buffer |-> buffer, offset |-> offset, length |-> length,
     writeable |-> buffer # "weights"]

Plain(image, constants, bindings, groups) ==
    [image |-> image, constants |-> constants, bindings |-> bindings,
     groups |-> groups, local_memory |-> 0, ordinal |-> 0,
     ordinal_too_large |-> FALSE, null |-> {}]

Matmul == Plain("zeroing", <<7>>, <<Bind("weights", 0, 2), Bind("data", 1, 2)>>, <<2, 2, 1>>)
Update == Plain("keeping", <<>>, <<Bind("data", 0, 1), Bind("weights", 1, 1)>>, <<1, 2, 1>>)
Scribble == Plain("keeping", <<8, 9>>, <<Bind("weights", 0, 2)>>, <<1, 1, 2>>)

MCDispatches ==
    {Matmul, Update, Scribble,
     [Matmul EXCEPT !.local_memory = 2],
     [Matmul EXCEPT !.local_memory = 3],
     [Matmul EXCEPT !.ordinal = 1],
     [Matmul EXCEPT !.groups = <<0, 1, 1>>, !.bindings = <<>>],
     [Matmul EXCEPT !.constants = <<1, 2, 3>>],
     [Matmul EXCEPT !.constants = <<1, 2, 3, 4, 5, 6, 7>>],
     [Matmul EXCEPT !.bindings = <<Bind("null", 0, 0), Bind("null", 0, 1)>>],
     [Matmul EXCEPT !.constants = <<>>,
                    !.bindings = <<Bind("weights", 0, 2), Bind("weights", 0, 2), Bind("data", 0, 3)>>],
     [Matmul EXCEPT !.null = {"constants"}],
     [Matmul EXCEPT !.null = {"binding_lengths"}, !.constants = <<>>],
     [Matmul EXCEPT !.ordinal_too_large = TRUE],
     [Matmul EXCEPT !.image = "broken"],
     [Matmul EXCEPT !.image = "old_abi"],
     [Matmul EXCEPT !.image = "no_library"]}

\* What the theorem on delivered results supposes holds here.
ASSUME WritesApart
=============================================================================

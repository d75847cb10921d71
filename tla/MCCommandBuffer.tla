-------------------------- MODULE MCCommandBuffer --------------------------
(* A small instance of CommandBuffer: dispatches of different shapes, so     *)
(* that each leaves something behind that the next must replace.             *)
EXTENDS CommandBuffer

D(constants, bindings, groups) ==
    [constants |-> constants, bindings |-> bindings, groups |-> groups,
     constants_aligned |-> TRUE, custom_arguments |-> FALSE,
     simulator |-> FALSE, indirect |-> FALSE, local_memory_size |-> 0,
     attrs |-> [constant_count |-> Len(constants), binding_count |-> Len(bindings)]]

Wide == D(<<1, 2>>, <<"a", "b", "c">>, <<2, 2, 1>>)
Narrow == D(<<>>, <<"d">>, <<1, 2, 2>>)

MCDispatches ==
    {[Wide EXCEPT !.local_memory_size = 1], [Narrow EXCEPT !.indirect = TRUE],
     [Narrow EXCEPT !.groups = <<0, 1, 1>>],
     [Wide EXCEPT !.bindings = <<"b", "NULL", "a">>],
     [Wide EXCEPT !.constants_aligned = FALSE],
     [Wide EXCEPT !.attrs.constant_count = 1],
     [Wide EXCEPT !.attrs.binding_count = 1],
     [Wide EXCEPT !.custom_arguments = TRUE],
     [Wide EXCEPT !.simulator = TRUE, !.attrs.binding_count = 0]}
=============================================================================

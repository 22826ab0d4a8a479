----------------------------- MODULE MCFECCodec -----------------------------
(***************************************************************************)
(* The codec over the field of eight elements: groups with and without     *)
(* zeros, of one length and of several, up to the four data and four FEC   *)
(* blocks this field has room for, and buffers of one, two and three       *)
(* blocks, one of them not a multiple of its block size.                   *)
(***************************************************************************)
EXTENDS FECCodec

MCGroups ==
  { [msgs |-> <<<<1, 0>>, <<5, 7>>>>, nfec |-> 2],
    [msgs |-> <<<<3>>, <<6, 2>>, <<0, 4>>>>, nfec |-> 2],
    [msgs |-> <<<<1>>, <<2>>, <<7>>, <<5>>>>, nfec |-> 4] }

MCBuffers ==
  { [buf |-> <<4>>, max |-> 3, fec_ratio |-> <<1, 2>>],
    [buf |-> <<2, 0, 7, 1, 1, 6, 3>>, max |-> 6, fec_ratio |-> <<1, 2>>],
    [buf |-> <<5, 0, 0, 3, 1, 2, 7, 6, 4, 4, 2, 1, 3, 7, 0, 6, 5, 5, 2, 1>>, max |-> 9,
     fec_ratio |-> <<2, 3>>] }

=============================================================================

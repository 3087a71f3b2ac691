---------------------------- MODULE UnivNumbers ----------------------------
(***************************************************************************)
(* The numbers of the tags of class universal, and the tag that ends the   *)
(* contents of an indefinite one (include/berio/univ.h).                   *)
(***************************************************************************)
EXTENDS Naturals

\* ber::univ::tn_...
univ ==
  [eoc |-> 0, boolean |-> 1, integer |-> 2, bit_string |-> 3, octet_string |-> 4, null |-> 5,
   object_ident |-> 6, object_descr |-> 7, external |-> 8, real |-> 9, enumerated |-> 10,
   emb_pdv |-> 11, utf8_string |-> 12, reloid |-> 13, time |-> 14, sequence |-> 16, set |-> 17,
   num_string |-> 18, print_string |-> 19, t61_string |-> 20, vtex_string |-> 21,
   ia5_string |-> 22, utc_time |-> 23, gen_time |-> 24, graph_string |-> 25,
   vis_string |-> 26, gen_string |-> 27, univ_string |-> 28, char_string |-> 29,
   bmp_string |-> 30, date |-> 31, timeofday |-> 32, datetime |-> 33, duration |-> 34,
   oidiri |-> 35, reloidiri |-> 36]

IsUniversal(th, number) == th.tclass = 0 /\ th.number = number

\* is_eoc(th, strict)
IsEocTag(th, strict) ==
  /\ IsUniversal(th, univ.eoc)
  /\ th.shape = "primitive"
  /\ strict => th.length = 0
=============================================================================

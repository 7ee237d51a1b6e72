------------------------------ MODULE SliceOps ------------------------------
(***************************************************************************)
(* The slice helpers of src/kafka/sarama_client.go that the registry uses  *)
(* to drop subscriber channels, as pure operators over sequences.  A Go   *)
(* slice is a sequence; a channel is a value compared by identity.         *)
(***************************************************************************)
EXTENDS Naturals, Sequences, SequencesExt

(* Index of the first occurrence of ch in chs (the `for i, channel =       *)
(* range channels` search of removeChannel); only used when ch occurs.     *)
FirstIndex(chs, ch) == CHOOSE i \in 1..Len(chs) :
                          /\ chs[i] = ch
                          /\ \A j \in 1..(i - 1) : chs[j] # ch

(* The backing array after removeChannel: the found element is swapped     *)
(* with the last one, in place (line 792).  Unchanged when ch is absent.   *)
SwapToEnd(chs, ch) ==
    IF Contains(chs, ch)
    THEN LET i == FirstIndex(chs, ch)
             n == Len(chs)
         IN  [chs EXCEPT ![i] = chs[n], ![n] = chs[i]]
    ELSE chs

(* Mutant: shortens the slice without the swap, dropping the last element  *)
(* instead of ch.                                                          *)
removeChannelNoSwap(chs, ch) ==
    IF Contains(chs, ch) THEN SubSeq(chs, 1, Len(chs) - 1) ELSE chs

(* removeChannel(channels, ch): the slice it returns, one shorter when ch  *)
(* was found (and then closed, line 793), the same slice otherwise.        *)
removeChannel(chs, ch) ==
    IF Contains(chs, ch)
    THEN SubSeq(SwapToEnd(chs, ch), 1, Len(chs) - 1)
    ELSE chs

(* The loop of clearTopicFromConsumerChannelMap and clearConsumerChannelMap *)
(*     for _, ch := range consumerCh.channels {                             *)
(*         removeChannel(consumerCh.channels, ch)                           *)
(*     }                                                                    *)
(* The range reads element i of the backing array at iteration i, every    *)
(* call searches the whole (never shortened) slice and swaps in place.     *)
(* ClearLoop(chs) is the record of the array left behind and the sequence  *)
(* of close() calls made, in order.                                        *)
RECURSIVE ClearFrom(_, _, _)
ClearFrom(arr, i, closed) ==
    IF i > Len(arr)
    THEN [array |-> arr, closes |-> closed]
    ELSE LET ch == arr[i]
         IN  ClearFrom(SwapToEnd(arr, ch), i + 1, Append(closed, ch))

ClearLoop(chs) == ClearFrom(chs, 1, <<>>)
=============================================================================

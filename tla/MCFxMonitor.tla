----------------------------- MODULE MCFxMonitor -----------------------------
(***************************************************************************)
(* Real addresses and limits; the monitor buffers are small so that lists  *)
(* that do not fit happen.                                                 *)
(***************************************************************************)
EXTENDS FxMonitor

Frame(at, cells) == [at |-> at, cells |-> cells]
Header(words, bits) == Frame(0, <<words + BYTE * MARKER, bits>>)

\* One word and nine bits; two words; too much for the result; too much for
\* the list; and two sets of entries, Y0, M8000, X255 and S999 among
\* the bits, D0 and the special registers among the words.
MCListFrames ==
    {Header(1, 9), Header(2, 0), Header(2, 1), Header(1, 11),
     Frame(2, <<\h4000, \h0C00, \h0E00, \h12FF, \h1400 + 999, 0, 1, 2, 3, \h0C00>>),
     Frame(2, <<\h0E14, \h4000, \h0C00>>)}

Request(fc, start, field, bytes, data, len) ==
    [fc |-> fc, start |-> start, field |-> field, bytes |-> bytes, data |-> data, len |-> len]
Read(fc, start, count) == Request(fc, start, count, 0, << >>, 6)
Words(start, data, bytes, len) == Request(16, start, Len(data), bytes, data, len)

MCProbes ==
    {Read(1, 1000, 2000), Read(1, 0, 257), Read(2, 2255, 1), Read(3, 0, 125),
     Read(3, 0, 126), Read(3, 0, 128), Read(3, 8255, 2), Read(4, 2000, 3), Read(4, 0, 0),
     Read(7, 0, 1), Request(3, 0, 1, 0, << >>, 5), Request(3, 0, 1, 0, << >>, 1),
     Request(5, 0, COIL_ON, 0, << >>, 6), Request(5, 256, 0, 0, << >>, 6),
     Request(5, 0, 1, 0, << >>, 6), Request(6, 0, 513, 0, << >>, 6),
     Request(15, 5999, 2, 1, <<1, 1>>, 8), Request(15, 5998, 2, 1, <<1, 1>>, 8),
     Words(0, <<7, 8>>, 4, 11), Words(8254, <<7, 520, 9>>, 6, 13), Words(8256, <<7>>, 2, 9),
     Words(8255, <<7, 8>>, 4, 10), Words(0, <<7, 8>>, 2, 11), Words(65535, <<7, 8>>, 4, 11)}

MCRequests == {Request(15, 5998, 2, 1, <<1, 1>>, 8), Words(8254, <<7, 520, 9>>, 6, 13)}
MCByteWrites == {<<\h00A0, 129>>}
MCForces == {\h0C00}
MCScanned == {<<"X", 255>>}

==============================================================================

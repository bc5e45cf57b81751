---------------------------- MODULE MCArchiveMount ----------------------------
(* Small instances of ArchiveMount for TLC. *)
EXTENDS ArchiveMount


\* The hashes put the names in another order than their bytes, and two together.
SmallHash == [n \in Names |-> IF n = 1 THEN 2 ELSE 1]

Cdfh(name, method, content, comp, uncomp, lho) ==
  [cell |-> "cdfh", name |-> name, method |-> method, flags |-> 0, crc |-> content,
   comp |-> comp, uncomp |-> uncomp, lho |-> lho, z64 |-> <<>>, meta |-> "kept"]

\* A DEFLATE entry of two blocks whose second copies from the first; a stored one
\* with an extra field in its local header alone; a comment.
Mixed ==
  <<Lfh(1, 0), Block(<<1, 2>>, FALSE), Block(<<-2, -2, 3>>, TRUE),
    Lfh(2, 1), Pad, StoredByte(4), StoredByte(5),
    Cdfh(1, 8, <<1, 2, 1, 2, 3>>, 2, 5, 0), Cdfh(2, 0, <<4, 5>>, 2, 2, 3),
    Eocd(2, 2, 7, 1), Pad>>

\* A DEFLATE entry with a data descriptor, one of a method without a provider.
Streamed ==
  <<Lfh(1, 0), Block(<<1>>, FALSE), Block(<<-1, 2>>, TRUE), Descriptor,
    Lfh(2, 0), Opaque(<<7, 8>>),
    [Cdfh(1, 8, <<1, 1, 2>>, 2, 3, 0) EXCEPT !.flags = 8],
    Cdfh(2, 93, <<7, 8>>, 1, 2, 4), Eocd(2, 2, 6, 0)>>

\* A Zip64 archive behind something else: the size of one entry and the offset of
\* another are in their extra fields.
Wide ==
  <<Pad, Lfh(1, 0), Block(<<1, 2>>, FALSE), Block(<<-1, 1, -2>>, TRUE),
    Lfh(2, 0), StoredByte(4),
    [Cdfh(1, 8, <<1, 2, 2, 1, 2>>, U32Max, U32Max, 1) EXCEPT !.z64 = <<5, 2>>],
    [Cdfh(2, 0, <<4>>, 1, 1, U32Max) EXCEPT !.z64 = <<4>>],
    Eocd64(2, 2, 6), Locator(8), Eocd(U16Max, U32Max, U32Max, 0)>>

\* One entry.
Single == <<Lfh(1, 0), StoredByte(4), Cdfh(1, 0, <<4>>, 1, 1, 0), Eocd(1, 1, 2, 0)>>

\* The same entry, once behind what a commit left dead.
Grown ==
  Single \o <<Lfh(1, 0), StoredByte(4), Cdfh(1, 0, <<4>>, 1, 1, 4), Eocd(1, 1, 6, 0)>>

Start(z, s, n) == [zip |-> z, sidecar |-> s, changes |-> n]

\* One archive with no sidecar, with those that programs write for it, with that
\* of another archive and with one that is damaged; the others with no sidecar.
SmallStarts ==
  {Start(Mixed, NoImage, 2), Start(Streamed, NoImage, 3), Start(Wide, NoImage, 2),
   Start(Grown, NoImage, 2)}
    \cup {Start(Mixed, s, 1) :
            s \in {MetadataOnly(Mixed), Split(Eager(Mixed)), Eager(Single)}
                    \cup Damaged(Eager(Mixed))}
SingleStarts == {Start(Single, NoImage, 2)}
SmallOthers == {Single}
NoOthers == {}
SmallRanges == {<<0, 2>>, <<1, 4>>}
SmallWrites == {0, 4}
NoRanges == {}
NoWrites == {}
=============================================================================

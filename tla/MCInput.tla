------------------------------- MODULE MCInput -------------------------------
(***************************************************************************)
(* Small instances of the stages of Input, that have the cases of each.      *)
(***************************************************************************)
EXTENDS Input

\* Two channels: the second has pids that are no PMT's and a program without streams; languages
\* come before and after the codec they belong to.

Stream(pid, type, descriptors) == [pid |-> pid, type |-> type, descriptors |-> descriptors]
Tag(tag) == [tag |-> tag, lang |-> "UNK"]
Language(lang) == [tag |-> "lang", lang |-> lang]
Subtitling(lang) == [tag |-> "subtitling", lang |-> lang]

OneProgram ==
  [pids |-> <<32>>,
   pmts |-> 32 :> <<Stream(1, "h264", <<>>), Stream(2, "mpa", <<Language("deu")>>),
                    Stream(3, "private", <<Language("eng"), Tag("ac3")>>),
                    Stream(4, "private", <<Tag("eac3"), Language("fra")>>)>>]
ThreePrograms ==
  [pids |-> <<32, 33, 0, 34>>,
   pmts |-> (32 :> <<Stream(1, "mpeg2", <<>>), Stream(2, "mpa", <<>>),
                     Stream(5, "private", <<Language("nor")>>), Stream(3, "private", <<Tag("ac3")>>),
                     Stream(6, "lpcm", <<Tag("HDMV"), Language("eng")>>)>>)
         @@ (33 :> <<Stream(7, "lpcm", <<>>), Stream(8, "mpa", <<>>),
                     Stream(9, "subtitles2", <<Subtitling("deu"), Language("eng")>>),
                     Stream(10, "private", <<Tag("teletext")>>)>>)
         @@ (34 :> <<>>)]
TheChannels == {OneProgram, ThreePrograms}

\* Bytes that make a wrong length, a missing section_syntax_indicator and stuffing, when they are
\* read in the place of a header.
Nasty == <<0, 1, 2, 16, 64, 128, 255, 176, 8, 5>>
TheContents ==
  [s \in 1..MaxSections |->
     [k \in 0..50 |-> IF k = 0 THEN 2 ELSE Nasty[1 + ((k * (s + 2) + k \div 3) % Len(Nasty))]]]

\* Descriptions: of two streams, of one that is not received and one that is, of ports that are
\* named and a line that is skipped; of a codec nobody knows, of nothing, and a malformed one.
Plain(kind) == [kind |-> kind, protocol |-> "", port |-> 0, payload |-> 0, codec |-> ""]
Medium(protocol, port, payload) ==
  [kind |-> "m", protocol |-> protocol, port |-> port, payload |-> payload, codec |-> ""]
RtpMap(payload, codec) == [Plain("rtpmap") EXCEPT !.payload = payload, !.codec = codec]
TheDescriptions ==
  {<<Plain("other"), RtpMap(33, "MPA"), Medium("RTP", 0, 33), Medium("RTP", 0, 96), RtpMap(96, "MP2T")>>,
   <<Medium("RTP", 0, 14), Medium("bad", 0, 33), RtpMap(14, "MP2T"), Medium("UDP", 0, 33)>>,
   <<Medium("RTP", 5, 33), Plain("other"), Medium("RTP", 0, 33)>>,
   <<Medium("RTP", 0, 33), Medium("RTP", 0, 96), RtpMap(97, "MP2T")>>,
   <<Plain("other")>>,
   <<Medium("RTP", 0, 33), Plain("malformed")>>}

\* Datagrams: of one packet and of two, with a 0x47 inside; broken ones, that begin in the middle
\* of a packet, end in it, have no packet in them or nothing at all.
ThePayloads ==
  {<<TRUE, FALSE>>, <<TRUE, FALSE, TRUE, TRUE>>, <<FALSE, TRUE, FALSE, TRUE>>, <<FALSE, FALSE, FALSE, TRUE, FALSE>>,
   <<FALSE, FALSE>>, <<TRUE>>, <<>>}

\* Keys that meet in a bucket before a rebuild and after.
TheHash(key, numBuckets) == IF numBuckets = 4 THEN key \div 2 ELSE key * 5
=============================================================================

------------------------------ MODULE MCBackend ------------------------------
(***************************************************************************)
(* A small TV server for Backend: two programs, two cards, two lineups.     *)
(***************************************************************************)
EXTENDS Backend

\* Two programs of one series, on the same weekday.
ThePrograms ==
  {[id |-> id, title |-> "news", channel |-> 1, start |-> 16 + 4 * id] : id \in {1, 2}}
TheDialogPrograms == {p \in ThePrograms : p.id = 1}
TheLifetimes == {-3, 7}
TheDialogLifetimes == {-3}
\* A keep date three days and a bit after the start, of a schedule with a priority.
TheKeeps == {[keep |-> "TillDate", date |-> 13, priority |-> 1]}

\* Two cards, of which the second gets a share and the first another one; programs of a series in
\* folders, one without a stream, and one with a date that cannot be converted.
DiskD == <<"D:", "\\", "R_", "R">>
DiskE == <<"E:", "\\", "S_", "S">>
Card(folder, unc) == [folder |-> folder, unc |-> unc]
Share(name) == <<"\\\\", "tv", "\\", name>>
TheNewCards == {<<Card(DiskD, Share("r")), Card(DiskE, Share("e"))>>}
TheCards == TheNewCards \cup {<<Card(DiskD, Share("d")), Card(DiskE, <<>>)>>}
Recorded(folder, below, title, episode, stream, dated) ==
  [folder |-> folder, below |-> below, title |-> title, episode |-> episode, stream |-> stream, dated |-> dated]
TheInFolders == {Recorded(DiskE, <<"show", "one">>, "show", "pilot", FALSE, TRUE),
              Recorded(DiskE, <<"show">>, "show", "pilot", TRUE, TRUE)}
TheToPlay == {Recorded(DiskD, <<>>, "film", "", FALSE, TRUE), Recorded(DiskE, <<>>, "film", "", TRUE, TRUE)}
Mode(ffmpeg) == [ffmpeg |-> ffmpeg, rtsp |-> ffmpeg]
TheFolderModes == {Mode(TRUE)}
TheModes == {Mode(b) : b \in BOOLEAN}
EdlLine(fields, start, stop, type) == [fields |-> fields, start |-> start, stop |-> stop, type |-> type]
TheEdl == {<<EdlLine(3, 5, 2, 0), EdlLine(1, 0, 0, 0), EdlLine(3, -1, 4, 3), EdlLine(3, 1, 2, 4)>>}

\* "News HD" is a group of its own, and "News" a part of its name.
Channel(uid, radio, encrypted, in) ==
  [uid |-> uid, radio |-> radio, encrypted |-> encrypted, number |-> <<uid, 1>>, groups |-> in]
News == <<"News">>
NewsHD == <<"News", "HD">>
Sport == <<"Sport">>
TheLineups ==
  {{Channel(1, FALSE, FALSE, {News}), Channel(2, FALSE, TRUE, {NewsHD, Sport}),
    Channel(3, FALSE, FALSE, {NewsHD, Sport}), Channel(5, TRUE, FALSE, {News})},
   {Channel(2, FALSE, TRUE, {NewsHD}), Channel(3, FALSE, FALSE, {News})}}
TheFilters == {<<>>, <<"Sport", ";", "News", "HD">>}
TheOptions == {[radioEnabled |-> b, onlyFTA |-> b, readGenre |-> b] : b \in BOOLEAN}
GuideLine(id, fields, dated, aired, genre) ==
  [id |-> id, fields |-> fields, dated |-> dated, aired |-> aired, genre |-> genre]
\* A full line, a short one, and one whose air date cannot be converted after the rest was filled.
TheLines == {GuideLine(1, 15, TRUE, TRUE, "sports"), GuideLine(2, 5, TRUE, TRUE, ""),
             GuideLine(3, 15, TRUE, FALSE, "drama")}
=============================================================================

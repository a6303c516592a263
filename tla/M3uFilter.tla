------------------------------ MODULE M3uFilter ------------------------------
(***************************************************************************)
(* The playlist of get.php (_filter_m3u in src/app/api/xtream.py): a pass  *)
(* over the lines of what the provider sent, against the visible sets.     *)
(***************************************************************************)
EXTENDS SequencesExt, Integers

\* A line is "#EXTM3U", "#EXTINF", "comment", "blank" or a url.  hidden is the
\* urls with the number of no visible title.

\* After the last line the url is empty.
LineAt(lines, n) == IF n <= Len(lines) THEN lines[n] ELSE "blank"

\* Fault: the url of a hidden title is looked at as a line of its own.
FilterM3uSingly(lines, hidden) ==
    LET scan[n \in 1..Len(lines) + 1] ==
          IF n > Len(lines) THEN <<>>
          ELSE IF lines[n] = "#EXTINF" /\ LineAt(lines, n + 1) \in hidden
               THEN scan[n + 1]
          ELSE IF lines[n] = "blank" THEN scan[n + 1]
          ELSE <<lines[n]>> \o scan[n + 1]
    IN  scan[1]

\* _filter_m3u: a title and the line after it are kept or dropped together,
\* whatever that line is; of the other lines only blank ones are dropped.
FilterM3u(lines, hidden) ==
    LET scan[n \in 1..Len(lines) + 2] ==
          IF n > Len(lines) THEN <<>>
          ELSE IF lines[n] = "#EXTINF"
               THEN (IF LineAt(lines, n + 1) \in hidden THEN <<>>
                     ELSE <<lines[n], LineAt(lines, n + 1)>>) \o scan[n + 2]
          ELSE IF lines[n] = "blank" THEN scan[n + 1]
          ELSE <<lines[n]>> \o scan[n + 1]
    IN  scan[1]

-----------------------------------------------------------------------------
\* What a playlist is made of: titles, each with its url in the next line, and
\* lines of other kinds.
Entries(urls) ==
    {<<"#EXTM3U">>, <<"comment">>, <<"blank">>} \union {<<"#EXTINF", url>> : url \in urls}

\* What is left of an entry.
Kept(entry, hidden) ==
    IF entry = <<"blank">> \/ Last(entry) \in hidden THEN <<>> ELSE entry

\* The playlist without its hidden titles and its blank lines.
Remaining(entries, hidden) ==
    FlattenSeq([n \in DOMAIN entries |-> Kept(entries[n], hidden)])

=============================================================================

--------------------------- MODULE MCYouTubePages ---------------------------
(* What YouTube answers and what is asked of it: pages with a card, an       *)
(* upload that names its artist in the title, results of known and of        *)
(* unknown length.                                                           *)
EXTENDS Integers, Sequences

Run(kind, text, browse, length) == [kind |-> kind, text |-> text, browse |-> browse, length |-> length]
By(id) == Run("name", <<"resonance">>, id, 0)
On(id) == Run("name", <<"odyssey">>, id, 0)
Time(n) == Run("time", <<"time">>, "", n)
Word(w) == Run("label", <<w>>, "", 0)

Row(v, title, runs) == [video |-> v, title |-> title, runs |-> runs, thumb |-> FALSE, length |-> 0, index |-> 0]
HomeText == <<"home">>
Upload == <<"resonance", "-", "home">>
Slowed == <<"home", "slowed">>

Long(row, n) == [row EXCEPT !.length = n]
Pic(row) == [row EXCEPT !.thumb = TRUE]

Loop == Row("v1", HomeText, <<Word("song"), By("UC1"), Time(3600)>>)
Quiet == Row("v1", HomeText, <<Word("song"), By("UC1"), On("MPRE1")>>)
Preview == Row("v2", HomeText, <<By("UC1"), Time(30)>>)
Near == Row("v2", Slowed, <<By("UC1"), Time(203)>>)
Early == Row("v3", HomeText, <<By("UC1"), On("MPRE1"), Time(198)>>)
Video == Row("v3", Upload, <<Word("video"), Time(200)>>)
Foreign == Row("v2", <<"odyssey", "-", "home">>, <<By(""), Time(200)>>)
Titleless == Row("v2", <<>>, <<>>)

Section(card, rows) == [i \in DOMAIN card |-> [card |-> TRUE, row |-> card[i]]] \o [i \in DOMAIN rows |-> [card |-> FALSE, row |-> rows[i]]]
MCSearchPages ==
    {<<>>,
     Section(<<Video>>, <<Loop, Titleless, Near>>),
     Section(<<>>, <<Near, Early>>) \o Section(<<Foreign>>, <<Quiet>>),
     Section(<<>>, <<Quiet, Foreign>>),
     Section(<<Quiet>>, <<Loop, Preview>>)}

MCPanels ==
    {<<Long(Pic(Row("v1", HomeText, <<By("UC1"), On("MPRE1")>>)), 200), Row("v2", Slowed, <<By(""), Word("views")>>)>>,
     <<Row("", HomeText, <<By(""), On("")>>), Titleless, Long(Row("v1", HomeText, <<By("UC1")>>), 3600)>>}

Detail(v, title, n) == [video |-> v, title |-> title, author |-> <<"resonance">>, channel |-> "UC1", length |-> n, thumb |-> TRUE]
MCDetails == {[Detail("", <<>>, 0) EXCEPT !.author = <<>>, !.channel = "", !.thumb = FALSE], Detail("v2", HomeText, 200)}

MCAlbumPages ==
    {[title |-> <<"odyssey">>, artist |-> <<"resonance">>, artistId |-> "UC1", thumb |-> TRUE,
      rows |-> <<Titleless, Long(Row("v3", HomeText, <<>>), 198), [Long(Row("v1", HomeText, <<By("UC1")>>), 200) EXCEPT !.index = 7]>>],
     [title |-> <<>>, artist |-> <<>>, artistId |-> "", thumb |-> FALSE, rows |-> <<>>]}

Listed(id) == [id |-> id, title |-> <<"odyssey">>, thumb |-> TRUE]
MCArtistPages ==
    {[name |-> <<"resonance">>, thumb |-> TRUE, songs |-> <<Titleless, Quiet, Long(Row("v2", HomeText, <<>>), 203)>>,
      albums |-> <<Listed("MPRE1")>>, singles |-> <<Listed("MPRE2")>>, similar |-> <<[id |-> "UC2", name |-> <<"odyssey">>]>>],
     [name |-> <<>>, thumb |-> FALSE, songs |-> <<>>, albums |-> <<>>, singles |-> <<>>, similar |-> <<>>]}

Want(title, length) == [title |-> title, artist |-> <<"resonance">>, length |-> length]
MCAsked ==
    {[op |-> "search", arg |-> 1], [op |-> "search", arg |-> 0],
     [op |-> "match", arg |-> Want(HomeText, 200)], [op |-> "match", arg |-> Want(HomeText, 0)],
     [op |-> "track", arg |-> "v1"], [op |-> "radio", arg |-> "v1"],
     [op |-> "album", arg |-> "MPRE1"], [op |-> "album", arg |-> "v1"],
     [op |-> "artist", arg |-> "UC1"], [op |-> "albums", arg |-> "resonance"],
     [op |-> "top", arg |-> "UC1"], [op |-> "similar", arg |-> "UC1"],
     [op |-> "cover", arg |-> "v1"], [op |-> "cover", arg |-> "MPRE1"], [op |-> "cover", arg |-> "UC1"],
     [op |-> "batch", arg |-> <<"v2", "v1", "v3">>]}
MCLatin == {"home", "resonance", "slowed", "odyssey", "song", "video", "views"}

=============================================================================

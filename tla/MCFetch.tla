------------------------------ MODULE MCFetch ------------------------------
EXTENDS Fetch

Counts == [source \in {"booru", "reddit"} |-> IF source = "booru" THEN 2 ELSE 3]
Asked == {0, 1, 3}

Boorus == {[id |-> TRUE, file |-> f, rating |-> "safe"] : f \in BOOLEAN}

\* A picture, a gallery of a good picture, a bad one, a video and a good one, and an adult picture.
Link == [over18 |-> FALSE, gallery |-> FALSE, self |-> FALSE, video |-> FALSE, hint |-> "link",
         preview |-> "none", url |-> "jpg", named |-> TRUE, media |-> <<>>]
Gallery == [Link EXCEPT !.gallery = TRUE,
              !.media = <<[valid |-> TRUE, mime |-> "png", url |-> "none"],
                          [valid |-> FALSE, mime |-> "png", url |-> "none"],
                          [valid |-> TRUE, mime |-> "mp4", url |-> "none"],
                          [valid |-> TRUE, mime |-> "", url |-> "jpg"]>>]
Adult == [Link EXCEPT !.over18 = TRUE, !.hint = "image", !.preview = "png"]
Reddits == {Link, Gallery, Adult}

Boards == {[host |-> "", tags |-> {"sky"}, rating |-> "safe"]}
Walls == [target |-> <<"r", "walls">>, search |-> FALSE, sort |-> "new", range |-> "", nsfw |-> FALSE]
Wrong == [Walls EXCEPT !.target = <<"u", "bob">>, !.search = TRUE]
Settings == {Walls, Wrong}
=============================================================================

---------------------------- MODULE MCDocsRouter ----------------------------
(* A small build, and every path of up to three segments.                  *)
EXTENDS DocsRouter

MCFiles ==
  LET index == Segment("index", ".html")
      page  == Segment("page", "")
  IN {<<index>>, <<page, index>>, <<page, page, index>>,
      <<Segment("404", ".html")>>, <<Segment("favicon", ".svg")>>,
      <<Segment("_astro", ""), Segment("style", ".css")>>,
      <<Segment("pagefind", ""), Segment("index", ""), Segment("en", ".pf")>>}

MCSegment ==
  {Segment(n, "") : n \in {"docs", "page", "404", "index", "_astro", "pagefind"}} \cup
  {Segment(n, ".html") : n \in {"index", "404", "page"}} \cup
  {Segment("favicon", ".svg"), Segment("style", ".css"), Segment("en", ".pf")}

MCWord == UNION {{s[1], s[2]} : s \in MCSegment}

MCVisits ==
  {Path(s, slash) : s \in SeqOf(MCSegment, 3) \ {<<>>}, slash \in BOOLEAN} \cup {Root}
=============================================================================

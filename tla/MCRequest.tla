------------------------------ MODULE MCRequest ------------------------------
(* Names of at most three letters: z is .gz, c is cgi-bin, m is mmc, and t *)
(* is the extension txt.  The root holds the index page, compressed, files *)
(* and two directories; names on the card have up to four letters.         *)
EXTENDS Request, TLC

MCTree == << >> :> "dir"
          @@ << << "z" >> >> :> "file"
          @@ << << "f" >> >> :> "file"
          @@ << << ".", "t" >> >> :> "file"
          @@ << << "f", "g" >> >> :> "file"
          @@ << << "d" >> >> :> "dir"
          @@ << << "d" >>, << "f" >> >> :> "file"
          @@ << << "d" >>, << ".", "t", "z" >> >> :> "file"
          @@ << << "d" >>, << "g", "z" >> >> :> "file"
          @@ << << "d" >>, << "d" >> >> :> "dir"
          @@ << << "d" >>, << "d" >>, << "h", "z" >> >> :> "file"

GET(url) == << "G", "E", "T", " ", "/" >> \o url \o << " " >>
HEAD(url) == << "H", "E", "A", "D", " ", "/" >> \o url \o << " " >>
POST(url) == << "P", "O", "S", "T", " ", "/" >> \o url \o << " " >>

MCRequests ==
    {GET(u) : u \in { << >>, << "f" >>, << "f", "g", "h" >>, << "f", "g", "h", "f" >>, << "f", "h" >>, << "h" >>,
                      << "d" >>, << "d", "/", "f" >>, << "d", "/", "g" >>,
                      << "f", "/", "f" >>, << "d", "/", "d", "/", "h" >>,
                      << "d", "/", "g", "?", "f" >>, << "f", "&", "d", "/", "f" >>,
                      << "c", "/", "f" >>, << ".", "t" >>, << "d", "/", ".", "t" >>,
                      << "m", "/", "f" >>, << "d", "/", "m", "/", "f" >>,
                      << "m", "/", "d", "/", "f" >>, << "m", "/", "f", ".", "t" >>,
                      << "m", "/", "f", ".", "t", "?", "f" >>, << "m", "/", "h" >>,
                      << "m", "/", "f", ".", "f", "h", "g" >> }}
    \cup {HEAD(<< "d", "/", "f", "?", "d", "=", "f" >>), POST(<< "d", "/", "h" >>),
          << "O", "P", "T", " ", "/", " " >>}

MCCardFiles == { << "f" >>, << "d", "/", "f" >>, << "f", ".", "t" >>,
                 << "f", ".", "f", "h" >> }
MCTypes == << "t" >> :> "text/plain"

MCCgiBin == << "c" >>
MCMmc == << "m" >>
MCGz == << "z" >>
=============================================================================

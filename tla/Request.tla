------------------------------- MODULE Request -------------------------------
(***************************************************************************)
(* httpd.c and romfs.c: one connection from the first byte of its request  *)
(* to the answer. _httpd_read_method() reads two bytes and skips the rest  *)
(* of the method, httpd_read_path() cuts the URL into words, and           *)
(* _httpd_handle_uri() walks with them through the tree of files in the    *)
(* program memory; behind the name mmc, _httpd_handle_uri_mmc() takes the  *)
(* rest of the URL for the name of a file on the SD card, which pf_open()  *)
(* (external) may fail to open although it is there.                       *)
(*                                                                         *)
(* The request arrives in pieces.  A read of several bytes takes what has  *)
(* arrived, and waits only if that is nothing.  What a local variable      *)
(* holds that was never written is any of the values it is compared with.  *)
(***************************************************************************)
EXTENDS Integers, Sequences, FiniteSets, SequencesExt

CONSTANTS Requests,   \* the requests, as sequences of characters
          Tree,       \* path |-> "dir" or "file", a path a sequence of names
          CardFiles,  \* names of the files on the card
          Types,      \* name extension |-> content type
          CGI_BIN, MMC, GZ,          \* the names "cgi-bin", "mmc" and ".gz"
          HTTPD_FILENAME_MAX_LENGTH, \* 16
          MMC_PATH_MAX               \* 255

(* The first two letters of a request tell how many characters to skip up  *)
(* to its URL, the slash included; 0 for no method.                        *)
Skip(a, b) ==
    CASE a = "G" /\ b = "E" -> 3
      [] a = "H" /\ b = "E" -> 4
      [] a = "P" /\ b = "O" -> 4
      [] OTHER              -> 0

Start(r) == 2 + Skip(r[1], r[2])

(* A request ends with the space behind its URL.  A name of a file holds   *)
(* no slash, and above every entry of the tree there are directories.      *)
NoSlash(name) == \A k \in DOMAIN name : name[k] # "/"

ASSUME RequestAssumption ==
    /\ HTTPD_FILENAME_MAX_LENGTH \in Nat \ {0}
    /\ MMC_PATH_MAX \in Nat \ {0}
    /\ \A f \in CardFiles : f \in Seq(STRING) /\ (f # << >> => Last(f) # "/")
    /\ \A e \in DOMAIN Types : e \in Seq(STRING) \ {<< >>} /\ NoSlash(e)
    /\ {CGI_BIN, MMC, GZ} \subseteq Seq(STRING) /\ NoSlash(GZ)
    /\ \A r \in Requests : /\ r \in Seq(STRING) /\ Len(r) > 2 /\ Last(r) = " "
                           /\ Start(r) > 2 => Start(r) < Len(r) /\ r[Start(r)] = "/"
    /\ << >> \in DOMAIN Tree /\ Tree[<< >>] = "dir"
    /\ \A p \in DOMAIN Tree :
          /\ Tree[p] \in {"dir", "file"}
          /\ p \in Seq(Seq(STRING)) /\ \A k \in DOMAIN p : NoSlash(p[k])
          /\ \A n \in 0 .. Len(p) - 1 :
                SubSeq(p, 1, n) \in DOMAIN Tree /\ Tree[SubSeq(p, 1, n)] = "dir"

VARIABLES stream,   \* what the client sends
          arrived,  \* characters of it that have arrived
          open,     \* Sn_SR is ESTABLISHED
          taken,    \* characters that the program has read
          pc,       \* what the program does next
          skip,     \* _httpd_read_method(): characters to skip
          buffer,   \* _httpd_handle_uri(): the word being read
          maxlen,   \* room left in buffer: maxlen, or len of the card's handler
          status,   \* the result of httpd_read_path()
          dirnode,  \* the directory reached, a path
          answer,   \* the status line sent, or who else answers
          filenode, \* the node that is sent, a path
          type,     \* the content type that the client is told
          begin     \* history: the characters read before the URL

netVars == << stream, arrived, open >>
pathVars == << buffer, maxlen, status >>
vars == << netVars, taken, pc, skip, pathVars, dirnode, answer, filenode, type, begin >>

Statuses == {"DONE", "PATH", "QUERY_STRING", "QUERY_PARAM", "QUERY_VALUE"}
Answers == {"none", "lost", "200", "200 gzip", "404", "500", "cgi",
            "200 mmc", "404 mmc"}

TypeOK ==
    /\ stream \in Requests
    /\ arrived \in 0 .. Len(stream) /\ taken \in 0 .. arrived
    /\ open \in BOOLEAN
    /\ pc \in {"method", "methodStatus", "skip", "skipStatus", "path", "pathStatus",
               "word", "file", "mmc", "mmcStatus", "mmcOpen", "done", "overrun"}
    /\ skip \in {0, 3, 4}
    /\ maxlen \in Nat
    /\ Len(buffer) + maxlen \in {HTTPD_FILENAME_MAX_LENGTH, MMC_PATH_MAX}
    /\ type \in {"none", "text/html", "application/octet-stream"} \cup {Types[e] : e \in DOMAIN Types}
    /\ status \in Statuses
    /\ dirnode \in DOMAIN Tree /\ Tree[dirnode] = "dir"
    /\ answer \in Answers
    /\ filenode \in DOMAIN Tree
    /\ begin \in 0 .. Len(stream)

Init ==
    /\ stream \in Requests
    /\ arrived = 0 /\ open = TRUE /\ taken = 0
    /\ pc = "method" /\ skip = 0
    /\ buffer = << >> /\ maxlen = HTTPD_FILENAME_MAX_LENGTH /\ status = "DONE"
    /\ dirnode = << >> /\ answer = "none" /\ filenode = << >>
    /\ type = "none" /\ begin = 0
-----------------------------------------------------------------------------
(* The client. *)

Arrive ==
    /\ open /\ arrived < Len(stream)
    /\ arrived' = arrived + 1
    /\ UNCHANGED << stream, open, taken, pc, skip, pathVars, dirnode, answer, filenode, type, begin >>

HangUp ==
    /\ open
    /\ open' = FALSE
    /\ UNCHANGED << stream, arrived, taken, pc, skip, pathVars, dirnode, answer, filenode, type, begin >>
-----------------------------------------------------------------------------
(* sock_read(): read what there is, at most len characters; if there is    *)
(* nothing, look at the status, and try again while the socket is open.    *)
(* After a read `next` comes, after the end of the connection `gone`.      *)

Available == arrived - taken
Take(len) == taken' = IF len < Available THEN taken + len ELSE arrived

(* The answer goes out only over an open connection (_sock_write()).       *)
Answer(a) == answer' = (IF open THEN a ELSE "lost") /\ pc' = "done"

(* _httpd_read_method(): its two bytes may come singly; the other byte of  *)
(* its buffer has not been written then.                                   *)
ReadMethod ==
    /\ pc = "method" /\ Available > 0
    /\ Take(2)
    /\ skip' \in IF Available > 1 THEN {Skip(stream[1], stream[2])}
                                  ELSE {Skip(stream[1], c) : c \in {"E", "O", "other"}}
    /\ IF skip' = 0 THEN Answer("500") ELSE pc' = "skip" /\ answer' = answer
    /\ UNCHANGED << netVars, pathVars, dirnode, filenode, type, begin >>

NoMethod ==
    /\ pc = "method" /\ Available = 0
    /\ pc' = "methodStatus"
    /\ UNCHANGED << netVars, taken, skip, pathVars, dirnode, answer, filenode, type, begin >>

MethodStatus ==
    /\ pc = "methodStatus"
    /\ IF open THEN pc' = "method" /\ answer' = answer ELSE Answer("500")
    /\ UNCHANGED << netVars, taken, skip, pathVars, dirnode, filenode, type, begin >>

(* The rest of the method, or as much of it as is there.                   *)
SkipMethod ==
    /\ pc = "skip" /\ Available > 0
    /\ Take(skip)
    /\ begin' = taken'
    /\ pc' = "path"
    /\ UNCHANGED << netVars, skip, pathVars, dirnode, answer, filenode, type >>

NoSkip ==
    /\ pc = "skip" /\ Available = 0
    /\ pc' = "skipStatus"
    /\ UNCHANGED << netVars, taken, skip, pathVars, dirnode, answer, filenode, type, begin >>

SkipStatus ==
    /\ pc = "skipStatus"
    /\ pc' = IF open THEN "skip" ELSE "path"
    /\ begin' = taken
    /\ UNCHANGED << netVars, taken, skip, pathVars, dirnode, answer, filenode, type >>
-----------------------------------------------------------------------------
(* httpd_read_path(): a word of the URL, up to a separator, the end of the *)
(* connection or the end of the buffer.  The character that does not fit   *)
(* has been read by then.                                                  *)

Next1 == stream[taken + 1]

Separators == {"/", " ", "?", "&", "="}

StatusOf(c) ==
    CASE c = "/" -> "PATH"
      [] c = "?" -> "QUERY_STRING"
      [] c = "&" -> "QUERY_PARAM"
      [] c = "=" -> "QUERY_VALUE"
      [] OTHER   -> "DONE"

(* Mutants: the space that ends the URL is not recognised; a word may have *)
(* one character more.                                                     *)
ReadCharNoSpace ==
    /\ pc = "path" /\ Available > 0
    /\ Take(1)
    /\ IF Next1 \in Separators \ {" "} \/ maxlen = 0
         THEN /\ status' = StatusOf(Next1)
              /\ pc' = "word"
              /\ UNCHANGED << buffer, maxlen >>
         ELSE /\ buffer' = Append(buffer, Next1)
              /\ maxlen' = maxlen - 1
              /\ UNCHANGED << status, pc >>
    /\ UNCHANGED << netVars, skip, dirnode, answer, filenode, type, begin >>

ReadCharTooMany ==
    /\ pc = "path" /\ Available > 0
    /\ Take(1)
    /\ IF Next1 \in Separators \/ maxlen < 0
         THEN /\ status' = StatusOf(Next1)
              /\ pc' = "word"
              /\ UNCHANGED << buffer, maxlen >>
         ELSE /\ buffer' = Append(buffer, Next1)
              /\ maxlen' = maxlen - 1
              /\ UNCHANGED << status, pc >>
    /\ UNCHANGED << netVars, skip, dirnode, answer, filenode, type, begin >>

ReadChar ==
    /\ pc = "path" /\ Available > 0
    /\ Take(1)
    /\ IF Next1 \in Separators \/ maxlen = 0
         THEN /\ status' = StatusOf(Next1)
              /\ pc' = "word"
              /\ UNCHANGED << buffer, maxlen >>
         ELSE /\ buffer' = Append(buffer, Next1)
              /\ maxlen' = maxlen - 1
              /\ UNCHANGED << status, pc >>
    /\ UNCHANGED << netVars, skip, dirnode, answer, filenode, type, begin >>

NoChar ==
    /\ pc = "path" /\ Available = 0
    /\ pc' = "pathStatus"
    /\ UNCHANGED << netVars, taken, skip, pathVars, dirnode, answer, filenode, type, begin >>

(* The client is gone.  c is the last character of the word, or, if the    *)
(* word is empty, has never been written.                                  *)
PathStatus ==
    /\ pc = "pathStatus"
    /\ IF open
         THEN pc' = "path" /\ status' = status
         ELSE pc' = "word" /\ status' \in IF buffer = << >> THEN Statuses ELSE {"DONE"}
    /\ UNCHANGED << netVars, taken, skip, buffer, maxlen, dirnode, answer, filenode, type, begin >>
-----------------------------------------------------------------------------
(* _httpd_handle_uri(): what becomes of a word. *)

Entry == Append(dirnode, buffer)
Reserved == {CGI_BIN, MMC}

NextWord == pc' = "path" /\ buffer' = << >> /\ maxlen' = HTTPD_FILENAME_MAX_LENGTH

(* Names that hand the rest of the request over to another handler.        *)
Delegate ==
    /\ pc = "word" /\ status = "PATH" /\ buffer \in Reserved
    /\ IF buffer = CGI_BIN
         THEN answer' = "cgi" /\ pc' = "done" /\ UNCHANGED << buffer, maxlen >>
         ELSE pc' = "mmc" /\ buffer' = << >> /\ maxlen' = MMC_PATH_MAX /\ UNCHANGED answer
    /\ UNCHANGED << netVars, taken, skip, status, dirnode, filenode, type, begin >>

OpenDirectory ==
    /\ pc = "word" /\ status = "PATH" /\ buffer \notin Reserved
    /\ Entry \in DOMAIN Tree /\ Tree[Entry] = "dir"
    /\ dirnode' = Entry
    /\ NextWord
    /\ UNCHANGED << netVars, taken, skip, status, answer, filenode, type, begin >>

(* Mutant: the last directory is opened as a file. *)
NoDirectoryOpens ==
    /\ pc = "word" /\ status = "PATH" /\ buffer \notin Reserved
    /\ ~(Entry \in DOMAIN Tree /\ Tree[Entry] = "dir")
    /\ pc' = "file"
    /\ UNCHANGED << netVars, taken, skip, pathVars, dirnode, answer, filenode, type, begin >>

(* No such entry, or a file. *)
NoDirectory ==
    /\ pc = "word" /\ status = "PATH" /\ buffer \notin Reserved
    /\ ~(Entry \in DOMAIN Tree /\ Tree[Entry] = "dir")
    /\ Answer("404")
    /\ UNCHANGED << netVars, taken, skip, pathVars, dirnode, filenode, type, begin >>

EndOfPath ==
    /\ pc = "word" /\ status \in {"DONE", "QUERY_STRING"}
    /\ status' = "DONE"
    /\ pc' = "file"
    /\ UNCHANGED << netVars, taken, skip, buffer, maxlen, dirnode, answer, filenode, type, begin >>

(* A word before & or = is dropped. *)
DropWord ==
    /\ pc = "word" /\ status \in {"QUERY_PARAM", "QUERY_VALUE"}
    /\ NextWord
    /\ UNCHANGED << netVars, taken, skip, status, dirnode, answer, filenode, type, begin >>

(* _httpd_write_content_type(): the type goes by what is behind the first  *)
(* dot; a name that is empty stands for an index page.                     *)
ContentType(name) ==
    LET extension == SubSeq(name, SelectInSeq(name, LAMBDA c : c = ".") + 1, Len(name))
    IN  IF name = << >> THEN "text/html"
        ELSE IF "." \in ToSet(name) /\ extension \in DOMAIN Types THEN Types[extension]
        ELSE "application/octet-stream"

Found(node, line) ==
    /\ Answer(line)
    /\ filenode' = IF answer' = "lost" THEN filenode ELSE node
    /\ type' = IF answer' = "lost" THEN type ELSE ContentType(buffer)

(* Mutant: the compressed file is not looked for. *)
OpenFilePlainOnly ==
    /\ pc = "file"
    /\ IF Entry \in DOMAIN Tree THEN Found(Entry, "200")
       ELSE Answer("404") /\ UNCHANGED << filenode, type >>
    /\ UNCHANGED << netVars, taken, skip, pathVars, dirnode, begin >>

(* The entry with the name in buffer, else the one with .gz behind the     *)
(* name, else none.  Behind a name that fills the buffer, .gz needs a byte *)
(* more than buffer has: the model stops there.                            *)
OpenFile ==
    /\ pc = "file"
    /\ LET gzip == Append(dirnode, buffer \o GZ)
       IN  IF Entry \in DOMAIN Tree THEN Found(Entry, "200")
           ELSE IF maxlen = 0 THEN pc' = "overrun" /\ UNCHANGED << answer, filenode, type >>
           ELSE IF gzip \in DOMAIN Tree THEN Found(gzip, "200 gzip")
           ELSE Answer("404") /\ UNCHANGED << filenode, type >>
    /\ UNCHANGED << netVars, taken, skip, pathVars, dirnode, begin >>
-----------------------------------------------------------------------------
(* _httpd_handle_uri_mmc(): the name goes up to a space, a question mark,  *)
(* the end of the connection or the end of the buffer; slashes belong to   *)
(* it.  The character that does not fit has been read by then.             *)

MmcChar ==
    /\ pc = "mmc" /\ Available > 0
    /\ Take(1)
    /\ IF Next1 \in {" ", "?"} \/ maxlen = 0
         THEN pc' = "mmcOpen" /\ UNCHANGED << buffer, maxlen >>
         ELSE /\ buffer' = Append(buffer, Next1)
              /\ maxlen' = maxlen - 1
              /\ UNCHANGED pc
    /\ UNCHANGED << netVars, skip, status, dirnode, answer, filenode, type, begin >>

MmcNoChar ==
    /\ pc = "mmc" /\ Available = 0
    /\ pc' = "mmcStatus"
    /\ UNCHANGED << netVars, taken, skip, pathVars, dirnode, answer, filenode, type, begin >>

MmcStatus ==
    /\ pc = "mmcStatus"
    /\ pc' = IF open THEN "mmc" ELSE "mmcOpen"
    /\ UNCHANGED << netVars, taken, skip, pathVars, dirnode, answer, filenode, type, begin >>

MmcOpen ==
    /\ pc = "mmcOpen"
    /\ \/ buffer \in CardFiles /\ Answer("200 mmc")
          /\ type' = IF answer' = "lost" THEN type ELSE ContentType(buffer)
       \/ Answer("404 mmc") /\ UNCHANGED type
    /\ UNCHANGED << netVars, taken, skip, pathVars, dirnode, filenode, begin >>
-----------------------------------------------------------------------------
Server ==
    \/ ReadMethod \/ NoMethod \/ MethodStatus
    \/ SkipMethod \/ NoSkip \/ SkipStatus
    \/ ReadChar \/ NoChar \/ PathStatus
    \/ Delegate \/ OpenDirectory \/ NoDirectory \/ EndOfPath \/ DropWord
    \/ OpenFile
    \/ MmcChar \/ MmcNoChar \/ MmcStatus \/ MmcOpen

Next == Server \/ Arrive \/ HangUp

(* The processor runs, and the network delivers what the client sends.     *)
Spec == Init /\ [][Next]_vars /\ WF_vars(Server) /\ WF_vars(Arrive)
-----------------------------------------------------------------------------
(* The URL behind its first slash, without the query; and the URL that a   *)
(* path in the tree has.                                                   *)
Url == LET after == SubSeq(stream, Start(stream) + 1, Len(stream))
       IN  SubSeq(after, 1, SelectInSeq(after, LAMBDA c : c \in {" ", "?"}) - 1)

UrlOf(path) ==
    FlattenSeq([k \in DOMAIN path |-> IF k = 1 THEN path[k] ELSE << "/" >> \o path[k]])

(* The names in the URL fit the buffer and hold none of the separators of  *)
(* a query.                                                                *)
PlainUrl ==
    /\ \A k \in DOMAIN Url : Url[k] \notin {"&", "="}
    /\ \A a, b \in 1 .. Len(Url) :
          b - a >= HTTPD_FILENAME_MAX_LENGTH => \E k \in a .. b : Url[k] = "/"

FromStart == begin = Start(stream)

(* The type that a name with one dot, or none, says it has. *)
TypeSaid(name) ==
    IF \E e \in DOMAIN Types : IsSuffix(<< "." >> \o e, name)
      THEN Types[CHOOSE e \in DOMAIN Types : IsSuffix(<< "." >> \o e, name)]
      ELSE IF name = << >> \/ Last(name) = "/" THEN "text/html"
      ELSE "application/octet-stream"

(* The name was read to its end, and not to the end of the buffer. *)
WholeName == stream[taken] \in {" ", "?"}

Dots(name) == Cardinality({k \in DOMAIN name : name[k] = "."})

(* What is sent with 200 is the entry that the URL names, byte by byte, or *)
(* with .gz behind it if the client is told that it is gzip'd, or the file *)
(* on the card that the rest of the URL names: whichever pieces the        *)
(* request comes in and wherever they part a name.  The client is told the *)
(* type that the URL says, unless it has dots in front (httpd.c:116-235,   *)
(* 239-329).                                                               *)
ServedWasAsked ==
    /\ answer = "200" /\ FromStart /\ PlainUrl => UrlOf(filenode) = Url
    /\ answer = "200 gzip" /\ FromStart /\ PlainUrl => UrlOf(filenode) = Url \o GZ
    /\ answer = "200 mmc" /\ FromStart /\ WholeName =>
          IsSuffix(MMC \o << "/" >> \o buffer, Url)
    /\ type # "none" /\ FromStart /\ PlainUrl /\ WholeName /\ Dots(Url) <= 1 =>
          type = TypeSaid(Url)

(* A client that is told 404 asked for nothing that is there.              *)
NotFoundIsNotThere ==
    answer = "404" /\ FromStart /\ PlainUrl =>
        \A p \in DOMAIN Tree \ {<< >>} : UrlOf(p) \notin {Url, Url \o GZ}

(* A client that stays until its request has arrived gets an answer,       *)
(* however the request is split: no short read leaves the program waiting  *)
(* for more than the client sends (socket.c:241-249).                      *)
Answered == []open => <>(pc \in {"done", "overrun"})

(* httpd.c:350, "fd's next read will read first char of url": when the     *)
(* handler is invoked the method is read, no more and no less.             *)
NextReadIsUrl == pc = "path" /\ begin # Start(stream) => ~open
=============================================================================

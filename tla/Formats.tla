-------------------------------- MODULE Formats --------------------------------
(***************************************************************************)
(* The formats aeon-sync reads from others: the answers of an IMAP server  *)
(* (email_imap.rs), the dates of mail providers (email_imap.rs,            *)
(* email_sync.rs), and the base32 secrets of one-time codes (vault.rs).    *)
(* The state is an input that grows: a mail as the server holds it, a      *)
(* calendar day, a secret.  The bytes of a mail are tuples that tell apart *)
(* what the readers look for; a time is a day number and a second.         *)
(***************************************************************************)
EXTENDS Integers, Sequences, FiniteSets

CONSTANTS
  Anchors,     \* calendar days the walk starts from, with their day numbers
  MaxWalk,     \* bound: days walked
  Times, Zones,  \* times of day and time zones, in seconds
  SecretBytes,   \* bytes of the secrets
  MaxMailBytes, MaxSecretBytes  \* bounds: bytes

IsLeap(y) == y % 4 = 0 /\ (y % 100 # 0 \/ y % 400 = 0)
\* The days from 1970-01-01 to the first day of a year.
YearStart(y) == 365 * (y - 1970) + Cardinality({k \in 1970..(y - 1) : IsLeap(k)})

\* A zone is less than a day from UTC, and a walk starts on a first of January.
ASSUME FormatAssumption ==
  /\ MaxWalk \in Nat /\ MaxMailBytes \in Nat /\ MaxSecretBytes \in Nat
  /\ \A b \in SecretBytes : b \in Nat /\ b < 256
  /\ \A t \in Times : t \in Nat /\ t < 86400
  /\ \A z \in Zones : z \in Int /\ -86400 < z /\ z < 86400
  /\ \A a \in Anchors : /\ a.year \in Nat /\ a.year >= 1970 /\ a.month = 1 /\ a.d = 1
                        /\ a.number = YearStart(a.year)

VARIABLES
  mail,    \* the bytes of a mail on the server
  day,     \* a calendar day, and its number of days since 1970-01-01
  key      \* the bytes of the secret of a one-time code

formatVars == <<mail, day, key>>

None == <<>>

-----------------------------------------------------------------------------
(* IMAP.  A FETCH answer is a line that announces a literal of n bytes, the *)
(* literal, a closing line, and the line with the tag of the command.       *)

Text == <<"text">>       Open == <<"open">>        Close == <<"close">>
Newline == <<"newline">> Tag == <<"tag">>          Ok == <<"ok">>
Bad == <<"bad">>         Replaced == <<"replaced">>  \* U+FFFD is three bytes
MailBytes == {Text, Open, Newline, Tag, Bad}

FetchAnswer(literal) ==
  <<Text, Open, <<"num", Len(literal)>>, Close, Newline>> \o literal
  \o <<Text, Newline, Tag, Ok, Newline>>

\* String::from_utf8_lossy, of the first n bytes.
Push(s, b) == s \o (IF b = Bad THEN <<Replaced, Replaced, Replaced>> ELSE <<b>>)
Lossy(bytes) ==
  LET text[n \in 0..Len(bytes)] ==
        IF n = 0 THEN None ELSE Push(text[n - 1], bytes[n])
  IN text
Decoded(bytes) == Lossy(bytes)[Len(bytes)]

IndexFrom(s, from, b) == LET at == {i \in from..Len(s) : s[i] = b}
                         IN IF at = {} THEN 0 ELSE CHOOSE i \in at : \A j \in at : i <= j

\* imap_literal_len, of a line that ends at its newline.
LiteralLen(line) ==
  LET opens == {i \in DOMAIN line : line[i] = Open}
      open == CHOOSE i \in opens : \A j \in opens : j <= i
  IN IF opens = {} \/ Len(line) < 4 THEN 0
     ELSE IF Len(line) >= open + 2 /\ line[open + 1][1] = "num" /\ line[open + 2] = Close
     THEN line[open + 1][2] ELSE 0

\* One round of read_response_until_tag: a line, and a literal of exactly the
\* length it announces.
BugLiteralLines(wire, r) ==
  LET end == IndexFrom(wire, r.at, Newline)
      line == SubSeq(wire, r.at, end)
  IN IF r.tagged \/ end = 0 THEN r
     ELSE [at |-> end + 1, text |-> r.text \o Decoded(line), tagged |-> line[1] = Tag]
ReadLine(wire, r) ==
  LET end == IndexFrom(wire, r.at, Newline)
      line == SubSeq(wire, r.at, end)
      n == LiteralLen(line)
  IN IF r.tagged \/ end = 0 THEN r
     ELSE [at |-> end + n + 1, text |-> r.text \o line \o Decoded(SubSeq(wire, end + 1, end + n)),
           tagged |-> line[1] = Tag]

Unread == [at |-> 1, text |-> <<>>, tagged |-> FALSE]
Rounds(wire) ==
  LET round[n \in 0..Len(wire)] ==
        IF n = 0 THEN Unread ELSE ReadLine(wire, round[n - 1])
  IN round
\* The whole response; one that breaks off is an error.
ReadResponse(wire) == LET r == Rounds(wire)[Len(wire)] IN IF r.tagged THEN r.text ELSE None

\* One round of parse_fetch_messages: the next announced literal of the decoded
\* response, cut out by the length the server gave for the undecoded bytes.
CutLiteral(response, p) ==
  LET open == IndexFrom(response, p.cursor, Open)
      from == open + 4
      n == response[open + 1][2]
  IN IF open = 0 \/ ~p.ok THEN p
     ELSE IF open + 2 > Len(response) \/ response[open + 1][1] # "num" THEN [p EXCEPT !.ok = FALSE]
     ELSE IF from + n > Len(response) + 1 THEN [p EXCEPT !.ok = FALSE]
     ELSE [p EXCEPT !.cursor = from + n, !.messages = Append(@, SubSeq(response, from, from + n - 1))]

Uncut == [cursor |-> 1, ok |-> TRUE, messages |-> <<>>]
Cuts(response) ==
  LET cut[n \in 0..Len(response)] ==
        IF n = 0 THEN Uncut ELSE CutLiteral(response, cut[n - 1])
  IN cut
ParseFetch(response) == Cuts(response)[Len(response)]

FetchedMails(literal) == ParseFetch(ReadResponse(FetchAnswer(literal)))

-----------------------------------------------------------------------------
(* Mail dates.                                                              *)

BugMarchYear(year, month, d) ==
  LET era == year \div 400
      yoe == year - era * 400
      doy == (153 * (month + IF month > 2 THEN 0 - 3 ELSE 9) + 2) \div 5 + d - 1
  IN era * 146097 + yoe * 365 + yoe \div 4 - yoe \div 100 + doy - 719468
\* days_from_civil, of both files; \div rounds down as the adjusted / does.
DaysFromCivil(year, month, d) ==
  LET y == IF month <= 2 THEN year - 1 ELSE year
      era == y \div 400
      yoe == y - era * 400
      doy == (153 * (month + IF month > 2 THEN 0 - 3 ELSE 9) + 2) \div 5 + d - 1
      doe == yoe * 365 + yoe \div 4 - yoe \div 100 + doy
  IN era * 146097 + doe - 719468

\* A number of seconds from the start of a day, which another day may hold.
Moment(days, seconds) == <<days + seconds \div 86400, seconds % 86400>>

\* parse_rfc2822_utc_ms: a date before 1970 has no time.
Rfc2822(year, month, d, time, zone) ==
  LET m == Moment(DaysFromCivil(year, month, d), time - zone)
  IN IF m[1] < 0 THEN None ELSE m

\* parse_rfc3339_utc_ms: always UTC; day 31 passes in every month.
Rfc3339(year, month, d, time) ==
  LET days == DaysFromCivil(year, month, d)
  IN IF month \notin 1..12 \/ d \notin 1..31 \/ days < 0 THEN None ELSE Moment(days, time)

-----------------------------------------------------------------------------
(* The vault's formats.                                                     *)

Power == <<2, 4, 8, 16, 32, 64, 128, 256, 512, 1024, 2048, 4096>>  \* of two
PowerOf(k) == IF k = 0 THEN 1 ELSE Power[k]

\* External: base32 of an authenticator, five bits to a character, the last
\* padded with zero bits.
Bit(bytes, i) == IF i >= 8 * Len(bytes) THEN 0 ELSE (bytes[(i \div 8) + 1] \div PowerOf(7 - (i % 8))) % 2
Encoded(bytes) ==
  [k \in 1..((8 * Len(bytes) + 4) \div 5) |->
     16 * Bit(bytes, 5*k - 5) + 8 * Bit(bytes, 5*k - 4) + 4 * Bit(bytes, 5*k - 3)
     + 2 * Bit(bytes, 5*k - 2) + Bit(bytes, 5*k - 1)]

BufferSize == 16777216  \* 2 ^ 24
BugLateByte(acc, value) ==
  LET buffer == (acc.buffer * 32 + value) % BufferSize
      bits == acc.bits + 5
  IN IF bits <= 8 THEN [acc EXCEPT !.buffer = buffer, !.bits = bits]
     ELSE [buffer |-> buffer, bits |-> bits - 8,
           out |-> Append(acc.out, (buffer \div PowerOf(bits - 8)) % 256)]
\* One character of decode_base32_secret; the code's 32-bit buffer is cut to
\* 24 bits here, of which at most 12 are ever read.
Shifted(acc, value) ==
  LET buffer == (acc.buffer * 32 + value) % BufferSize
      bits == acc.bits + 5
  IN IF bits < 8 THEN [acc EXCEPT !.buffer = buffer, !.bits = bits]
     ELSE [buffer |-> buffer, bits |-> bits - 8,
           out |-> Append(acc.out, (buffer \div PowerOf(bits - 8)) % 256)]

Undecoded == [buffer |-> 0, bits |-> 0, out |-> <<>>]
Decodings(chars) ==
  LET acc[n \in 0..Len(chars)] ==
        IF n = 0 THEN Undecoded ELSE Shifted(acc[n - 1], chars[n])
  IN acc
DecodeSecret(chars) == Decodings(chars)[Len(chars)].out

-----------------------------------------------------------------------------
FormatInit ==
  /\ mail = <<>> /\ key = <<>>
  /\ \E a \in Anchors : day = [year |-> a.year, month |-> a.month, d |-> a.d,
                               number |-> a.number, walked |-> 0]

MonthLength(y, m) == CASE m \in {4, 6, 9, 11} -> 30
                       [] m = 2 -> IF IsLeap(y) THEN 29 ELSE 28
                       [] OTHER -> 31

\* The next day of the calendar.
NextDay ==
  /\ mail = <<>> /\ key = <<>> /\ day.walked < MaxWalk
  /\ day' = LET last == day.d = MonthLength(day.year, day.month)
            IN [year |-> IF last /\ day.month = 12 THEN day.year + 1 ELSE day.year,
                month |-> IF last THEN (day.month % 12) + 1 ELSE day.month,
                d |-> IF last THEN 1 ELSE day.d + 1,
                number |-> day.number + 1, walked |-> day.walked + 1]
  /\ UNCHANGED <<mail, key>>

MoreMail(b) ==
  /\ day.walked = 0 /\ key = <<>> /\ Len(mail) < MaxMailBytes /\ mail' = Append(mail, b)
  /\ UNCHANGED <<day, key>>
MoreSecret(b) ==
  /\ day.walked = 0 /\ mail = <<>> /\ Len(key) < MaxSecretBytes /\ key' = Append(key, b)
  /\ UNCHANGED <<mail, day>>

FormatNext ==
  \/ NextDay
  \/ \E b \in MailBytes : MoreMail(b)
  \/ \E b \in SecretBytes : MoreSecret(b)

FormatSpec == FormatInit /\ [][FormatNext]_formatVars

-----------------------------------------------------------------------------
\* A mail is imported as the server holds it, whatever braces, lines or tags it
\* contains; one with bytes that are not UTF-8 is cut to as many bytes of its
\* decoded text, and refused if the part cut off has a brace.
MailFetchedWhole ==
  LET f == FetchedMails(mail)
      cut == SubSeq(Decoded(mail), 1, Len(mail))
      left == SubSeq(Decoded(mail), Len(mail) + 1, Len(Decoded(mail)))
  IN IF f.ok THEN f.messages = <<cut>> ELSE \E i \in DOMAIN left : left[i] = Open

\* A date of a mail is the same second whichever provider wrote it, across leap
\* days, centuries and time zones.
DatesMatchCalendar ==
  \A time \in Times :
    /\ Rfc3339(day.year, day.month, day.d, time) = <<day.number, time>>
    /\ \A zone \in Zones :
         LET utc == time - zone
             shift == IF utc < 0 THEN 0 - 1 ELSE IF utc >= 86400 THEN 1 ELSE 0
         IN Rfc2822(day.year, day.month, day.d, time, zone) =
              IF day.number + shift < 0 THEN None
              ELSE <<day.number + shift, utc - 86400 * shift>>

\* The key of a one-time code is the secret the authenticator was given.
SecretsDecode == DecodeSecret(Encoded(key)) = key

\* The mails, dates and secrets others have written are read as they meant them.
ReadAsWritten == MailFetchedWhole /\ DatesMatchCalendar /\ SecretsDecode

=============================================================================

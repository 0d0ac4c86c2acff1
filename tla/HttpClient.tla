------------------------------- MODULE HttpClient -------------------------------
(***************************************************************************)
(* CHttpClient (core/net/httpclient.cpp): DownloadFile, which can resume   *)
(* the file of an earlier call, and Perform, the attempts of HttpGet,      *)
(* HttpPost and UploadFile.  One thread makes one call after the other;    *)
(* the server, the connection and libcurl are modelled by what the code    *)
(* sees of them: an answer, its blocks as the write function gets them,    *)
(* and the end of curl_easy_perform.                                       *)
(*                                                                         *)
(* A block of the resource is its version and its place, a block of an     *)
(* answer to Perform the attempt and its place.                            *)
(***************************************************************************)
EXTENDS Integers, Sequences, SequencesExt

CONSTANTS
    TRYCOUNT_DOWNLOAD,  \* 2
    TryCounts,          \* the values of nTryCount
    Sizes,              \* the blocks of each version of the resource
    BodySize,           \* the blocks of an answer to Perform
    MaxBegun            \* bound: the calls of the application

ASSUME HttpClientAssumption ==
    /\ TRYCOUNT_DOWNLOAD \in Nat \ {0}
    /\ TryCounts \subseteq Int
    /\ Sizes \in Seq(Nat) /\ Sizes # <<>>
    /\ BodySize \in Nat
    /\ MaxBegun \in Nat

VARIABLES
    file,               \* the blocks of strFile
    version, ranges,    \* of the resource; the server answers ranges
    method,             \* the method of the last call
    bBreakPointSupport, nTryCount,  \* its parameters
    place,
    infoHeader,         \* [1], the size of the resource as HEAD told it
    attempt,            \* the loop variable of the attempts
    answer,             \* the answer of the server: its code and the blocks to come
    nSize,              \* the size of the file before an attempt that resumes
    vctRespBuf,         \* Perform's
    nCode,              \* of the result
    begun,              \* how often the application called
    \* history, since the file was last emptied
    restarted,          \* a whole resource came after blocks of an earlier attempt
    changed,            \* the resource changed
    short,              \* fwrite did not write a block
    misled              \* since the last call: HEAD was answered by an error

param == <<method, bBreakPointSupport, nTryCount, begun>>
server == <<version, ranges>>
flaws == <<restarted, changed, short, misled>>
clientVars == <<file, server, param, place, infoHeader, attempt, answer, nSize, vctRespBuf,
                nCode, flaws>>

(* idle: no call; head: in the first curl_easy_perform of a download (381);  *)
(* open: at 451; try: at 466; receive: in curl_easy_perform at 487; perform: *)
(* at 670; respond: in curl_easy_perform at 673.  undefined: strlen of a     *)
(* null pointer (694).                                                       *)
Places == {"idle", "head", "open", "try", "receive", "perform", "respond", "undefined"}

Methods == {"HTTP_GET", "HTTP_POST", "HTTP_DOWNLOAD", "HTTP_UPLOAD"}

CURLE_OK == 0
CURLE_ERROR == 1    \* whichever code below 100 libcurl or the client gives
Codes == {CURLE_OK, CURLE_ERROR, 200, 206, 304, 404, 416}

Block == Nat \X Nat
Blocks(n, size) == [k \in 1..size |-> <<n, k>>]
Resource == Blocks(version, Sizes[version])
Page == <<<<0, 1>>>>    \* the body of an error

Answer == [code : Codes, body : Seq(Block)]
NoAnswer == [code |-> CURLE_ERROR, body |-> <<>>]

ClientTypeOK ==
    /\ file \in Seq(Block)
    /\ version \in 1..Len(Sizes)
    /\ ranges \in BOOLEAN
    /\ method \in Methods
    /\ bBreakPointSupport \in BOOLEAN
    /\ nTryCount \in TryCounts \cup {-1}
    /\ place \in Places
    /\ infoHeader \in Nat
    /\ attempt \in Nat
    /\ place \in {"try", "receive"} => attempt < TRYCOUNT_DOWNLOAD
    /\ answer \in Answer
    /\ nSize \in 0..Len(file)
    /\ vctRespBuf \in Seq(Block)
    /\ nCode \in Codes
    /\ begun \in 0..MaxBegun
    /\ restarted \in BOOLEAN
    /\ changed \in BOOLEAN
    /\ short \in BOOLEAN
    /\ misled \in BOOLEAN

ClientInit ==
    /\ file = <<>>
    /\ version = 1
    /\ ranges \in BOOLEAN
    /\ method = "HTTP_GET"
    /\ bBreakPointSupport = FALSE
    /\ nTryCount = -1
    /\ place = "idle"
    /\ infoHeader = 0
    /\ attempt = 0
    /\ answer = NoAnswer
    /\ nSize = 0
    /\ vctRespBuf = <<>>
    /\ nCode = CURLE_OK
    /\ begun = 0
    /\ restarted = FALSE
    /\ changed = FALSE
    /\ short = FALSE
    /\ misled = FALSE

(* The answer that has arrived was a success (60).                           *)
Success(code) == code \in 200..299

(* The call returns, and its locals end.                                     *)
Return(code) ==
    /\ nCode' = code
    /\ place' = "idle"
    /\ infoHeader' = 0
    /\ answer' = NoAnswer
    /\ nSize' = 0
-----------------------------------------------------------------------------
(* DownloadFile.                                                             *)

DownloadFile(resume) ==
    /\ place = "idle"
    /\ begun < MaxBegun
    /\ begun' = begun + 1
    /\ method' = "HTTP_DOWNLOAD"
    /\ bBreakPointSupport' = resume
    /\ nTryCount' = -1
    /\ attempt' = 0
    /\ vctRespBuf' = <<>>
    /\ misled' = FALSE
    /\ place' = IF resume THEN "head" ELSE "open"
    /\ UNCHANGED <<file, server, infoHeader, answer, nSize, nCode, restarted, changed, short>>

(* 368-392: HEAD may fail, or be answered without a length, or by an error,  *)
(* whose length is taken for the size; what it says of ranges is not used.   *)
AskSize ==
    /\ place = "head"
    /\ infoHeader' \in {0, Len(Resource), Len(Page)}
    /\ misled' = (infoHeader' \notin {0, Len(Resource)})
    /\ place' = "open"
    /\ UNCHANGED <<file, server, param, attempt, answer, nSize, vctRespBuf, nCode, restarted,
                   changed, short>>

(* 451-453: "ab+" or "wb+".                                                  *)
OpenFile ==
    /\ place = "open"
    /\ UNCHANGED misled
    /\ IF bBreakPointSupport THEN UNCHANGED <<file, restarted, changed, short>>
       ELSE /\ file' = <<>>
            /\ restarted' = FALSE /\ changed' = FALSE /\ short' = FALSE
    /\ place' = "try"
    /\ UNCHANGED <<server, param, infoHeader, attempt, answer, nSize, vctRespBuf, nCode>>

OpenFails ==
    /\ place = "open"
    /\ Return(CURLE_ERROR)
    /\ UNCHANGED <<file, server, param, attempt, vctRespBuf, flaws>>

(* 472-478.                                                                  *)
AlreadyFinished ==
    /\ place = "try"
    /\ bBreakPointSupport /\ infoHeader > 0 /\ Len(file) >= infoHeader
    /\ Return(CURLE_OK)
    /\ UNCHANGED <<file, server, param, attempt, vctRespBuf, flaws>>

(* What the server may answer to a GET, with "Range: from-" or without.      *)
RangeAnswer(from) ==
    IF from < Len(Resource)
    THEN [code |-> 206, body |-> SubSeq(Resource, from + 1, Len(Resource))]
    ELSE [code |-> 416, body |-> Page]

Answers(from) ==
    {[code |-> 404, body |-> Page],
     IF bBreakPointSupport /\ ranges THEN RangeAnswer(from)
     ELSE [code |-> 200, body |-> Resource]}

(* Faulty variant: the size is taken once, at the first attempt.             *)
SizeOfFirst == IF attempt = 0 THEN Len(file) ELSE nSize

FromPoint == Len(file)

(* 470-487: the request is sent and an answer begins, or none comes.         *)
Send ==
    /\ place = "try"
    /\ ~(bBreakPointSupport /\ infoHeader > 0 /\ Len(file) >= infoHeader)
    /\ nSize' = IF bBreakPointSupport THEN FromPoint ELSE 0
    /\ \E a \in Answers(FromPoint) \cup {NoAnswer} :
        /\ answer' = a
        /\ restarted' = (restarted \/ (a.code = 200 /\ file # <<>>))
    /\ place' = "receive"
    /\ UNCHANGED <<file, server, param, infoHeader, attempt, vctRespBuf, nCode, changed, short,
                   misled>>

(* Faulty variant: the rest of a resource is not written.                    *)
Only200(code) == code = 200

Writes(code) == Success(code)

(* 50-64: the result of fwrite is not looked at.                             *)
OnWriteFileData ==
    /\ place = "receive"
    /\ answer.body # <<>>
    /\ \/ /\ Writes(answer.code)
          /\ file' = Append(file, Head(answer.body))
          /\ UNCHANGED short
       \/ /\ Writes(answer.code)    \* the disk is full
          /\ short' = TRUE
          /\ UNCHANGED file
       \/ /\ ~Writes(answer.code)
          /\ UNCHANGED <<file, short>>
    /\ answer' = [answer EXCEPT !.body = Tail(@)]
    /\ UNCHANGED <<server, param, place, infoHeader, attempt, nSize, vctRespBuf, nCode, restarted,
                   changed, misled>>

(* 488-506: the answer is complete.                                          *)
Downloaded ==
    /\ place = "receive"
    /\ answer.body = <<>> /\ answer # NoAnswer
    /\ Return(answer.code)
    /\ UNCHANGED <<file, server, param, attempt, vctRespBuf, flaws>>

(* Faulty variant: the loop does not count.                                  *)
SameTry == attempt

NextTry == attempt + 1

(* Faulty variant: one attempt too many.                                     *)
OneMoreTry(n) == NextTry <= n

TriesLeft(n) == NextTry < n

(* 466, 497: the connection breaks or a timeout is over.                     *)
DownloadBreaks ==
    /\ place = "receive"
    /\ \/ /\ TriesLeft(TRYCOUNT_DOWNLOAD)
          /\ attempt' = NextTry
          /\ place' = "try"
          /\ answer' = NoAnswer
          /\ UNCHANGED <<infoHeader, nSize, nCode>>
       \/ /\ ~TriesLeft(TRYCOUNT_DOWNLOAD)
          /\ Return(CURLE_ERROR)
          /\ UNCHANGED attempt
    /\ UNCHANGED <<file, server, param, vctRespBuf, flaws>>
-----------------------------------------------------------------------------
(* HttpGet, HttpPost and UploadFile.                                         *)

Request(m, n) ==
    /\ place = "idle"
    /\ begun < MaxBegun
    /\ begun' = begun + 1
    /\ method' = m
    /\ bBreakPointSupport' = FALSE
    /\ nTryCount' = n
    /\ vctRespBuf' = <<>>
    /\ attempt' = 0
    /\ UNCHANGED <<file, server, infoHeader, answer, nSize, flaws>>

HttpGet(n) ==
    /\ Request("HTTP_GET", n)
    /\ place' = "perform"
    /\ UNCHANGED nCode

HttpPost(n) ==
    /\ Request("HTTP_POST", n)
    /\ place' = "perform"
    /\ UNCHANGED nCode

(* 540-546: the file may not be there.                                       *)
UploadFile(n) ==
    /\ Request("HTTP_UPLOAD", n)
    /\ \/ place' = "perform" /\ UNCHANGED nCode
       \/ place' = "idle" /\ nCode' = CURLE_ERROR

(* Faulty variant: what an earlier attempt left is kept.                     *)
KeepBuffer == vctRespBuf

ClearBuffer == <<>>

(* 672-673.                                                                  *)
SendRequest ==
    /\ place = "perform"
    /\ vctRespBuf' = ClearBuffer
    /\ answer' \in {[code |-> c, body |-> Blocks(attempt, BodySize)] : c \in {200, 304, 404}}
                       \cup {NoAnswer}
    /\ place' = "respond"
    /\ UNCHANGED <<file, server, param, infoHeader, attempt, nSize, nCode, flaws>>

(* 27-38.                                                                    *)
OnWriteData ==
    /\ place = "respond"
    /\ answer.body # <<>>
    /\ vctRespBuf' = Append(vctRespBuf, Head(answer.body))
    /\ answer' = [answer EXCEPT !.body = Tail(@)]
    /\ UNCHANGED <<file, server, param, place, infoHeader, attempt, nSize, nCode, flaws>>

(* 679-704.  An answer 3xx that libcurl has not followed has no redirect     *)
(* URL: CURLINFO_REDIRECT_URL gives a null pointer.                          *)
Responded ==
    /\ place = "respond"
    /\ answer.body = <<>> /\ answer # NoAnswer
    /\ \/ /\ answer.code \in 300..399
          /\ nCode' = answer.code
          /\ place' = "undefined"
          /\ UNCHANGED <<infoHeader, answer, nSize>>
       \/ /\ answer.code \notin 300..399
          /\ Return(answer.code)
    /\ UNCHANGED <<file, server, param, attempt, vctRespBuf, flaws>>

nTry == IF nTryCount > 0 THEN nTryCount ELSE 1

(* 670-677, 685.                                                             *)
RequestBreaks ==
    /\ place = "respond"
    /\ \/ /\ TriesLeft(nTry)
          /\ attempt' = NextTry
          /\ place' = "perform"
          /\ answer' = NoAnswer
          /\ UNCHANGED <<infoHeader, nSize, nCode>>
       \/ /\ ~TriesLeft(nTry)
          /\ Return(CURLE_ERROR)
          /\ UNCHANGED attempt
    /\ UNCHANGED <<file, server, param, vctRespBuf, flaws>>
-----------------------------------------------------------------------------
(* The server gets another version of the resource.  What the file holds is  *)
(* of the old one, be it nothing because that was empty.                     *)
Update ==
    /\ place # "undefined"
    /\ version < Len(Sizes)
    /\ version' = version + 1
    /\ changed' = (changed \/ file # <<>> \/ file = Resource \/ place # "idle")
    /\ UNCHANGED <<file, ranges, param, place, infoHeader, attempt, answer, nSize, vctRespBuf,
                   nCode, restarted, short, misled>>

(* The program dies and is started again: stdio had passed on some of the    *)
(* blocks, and with fseek (470) those that were there before the attempt.    *)
Crash ==
    /\ place \notin {"idle", "undefined"}
    /\ \E k \in nSize..Len(file) : file' = SubSeq(file, 1, k)
    /\ Return(CURLE_ERROR)
    /\ vctRespBuf' = <<>>
    /\ UNCHANGED <<server, param, attempt, flaws>>
-----------------------------------------------------------------------------
(* The steps of a call.                                                      *)
Step ==
    \/ AskSize
    \/ OpenFile
    \/ OpenFails
    \/ AlreadyFinished
    \/ Send
    \/ OnWriteFileData
    \/ Downloaded
    \/ DownloadBreaks
    \/ SendRequest
    \/ OnWriteData
    \/ Responded
    \/ RequestBreaks

ClientNext ==
    \/ \E resume \in BOOLEAN : DownloadFile(resume)
    \/ \E n \in TryCounts : HttpGet(n) \/ HttpPost(n) \/ UploadFile(n)
    \/ Step
    \/ Update
    \/ Crash

ClientSpec == ClientInit /\ [][ClientNext]_clientVars

(* A call goes on: the peer sends, or the connection breaks.  libcurl sees   *)
(* to the second only with an nPerformTimeout (422, 645), which the          *)
(* application has to give.                                                  *)
FairClientSpec == ClientSpec /\ WF_clientVars(Step)
-----------------------------------------------------------------------------
(* Nothing happened that DownloadFile does not notice: the second attempt of *)
(* a download that does not resume, or of one from a server that does not    *)
(* answer ranges, puts the whole resource behind what is there (466, 451);   *)
(* the resource changed (472 compares sizes); a block was not written (61).  *)
Unflawed == ~restarted /\ ~changed /\ ~short

(* The file is a prefix of the resource, over attempts, later calls that     *)
(* resume it, pages of errors and crashes.                                   *)
FileIsPrefix == Unflawed => IsPrefix(file, Resource)

(* When a download returns with a success (httpclient.h:214, or CURLE_OK of  *)
(* line 476), the file is the whole resource, unless the length of an error  *)
(* answered to HEAD was taken for its size.                                  *)
SuccessIsWhole ==
    (place = "idle" /\ begun > 0 /\ method = "HTTP_DOWNLOAD" /\ (Success(nCode) \/ nCode = CURLE_OK)
       /\ Unflawed /\ ~misled)
        => file = Resource

(* The data of a result of Perform is what came of the last attempt, and all *)
(* of it when the result is an answer; the server is not asked again once an *)
(* answer was complete, nor more often than nTryCount.                       *)
DataIsOfLastTry ==
    place = "idle" /\ begun > 0 /\ method # "HTTP_DOWNLOAD" =>
        /\ IsPrefix(vctRespBuf, Blocks(attempt, BodySize))
        /\ nCode # CURLE_ERROR => vctRespBuf = Blocks(attempt, BodySize)
        /\ attempt < nTry

(* Every call returns, whatever breaks, unless it meets an answer 3xx.       *)
CallReturns == place # "idle" ~> place \in {"idle", "undefined"}
=============================================================================

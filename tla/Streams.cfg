SPECIFICATION Spec
CONSTANTS
  c1 = c1  c2 = c2  c3 = c3  c4 = c4
  Parts = {"think", "tool", "reply", "filter", "json", "talk"}
  ThinkKinds = {"qwen", "deepseek", "glm", "harmony", "gptoss", "gemma"}
  ThinkAnswers <- MCThinkAnswers  ThinkChunks <- MCThinkChunks
  ToolKinds = {"llama", "deepseek", "kimi", "granite", "nemotron", "xlam", "minimax", "mistral",
               "hermes", "qwen", "glm47", "gemma4", "harmony", "functionary", "auto"}
  ToolAnswers <- MCToolAnswers  ToolChunks <- MCToolChunks
  Replies = {c1, c2, c3, c4}  ReplyApi <- MCReplyApi  ReplyPlain = {c4}
  ReplyModes <- MCReplyModes  ReplyAnswers <- MCReplyAnswers  ReplyChunks <- MCReplyChunks
  Overlap = FALSE
  FilterKinds = {"calls", "think", "fence"}
  FilterAnswers <- MCFilterAnswers  FilterChunks <- MCFilterChunks
  MaxToolBuffer = 4  TailHoldback = 2
  Styles <- MCStyles  Asks <- MCAsks  TalkReplies <- MCTalkReplies  RequestTools = {"t1", "t2"}  MaxTurns = 3
  JsonTexts <- MCJsonTexts  JsonKeys <- MCJsonKeys  JsonVocab <- MCJsonVocab
  JsonModes = {"plain", "mllm"}  StuckTexts <- MCStuckTexts  JsonFaults = TRUE
INVARIANTS StreamsTypeOK    SchemaKept AllHeard
CHECK_DEADLOCK FALSE

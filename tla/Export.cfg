SPECIFICATION Spec
CONSTANTS
  Jobs <- AllJobs
  PageRecords = 3
  RecordBytes = 4
  SigLength = 5
  BaseAddress = 16384
INVARIANT TypeOK RecordsAddUp LoadsAsWritten AppFieldsAgree ProgramFieldsAgree

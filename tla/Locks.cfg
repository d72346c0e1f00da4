SPECIFICATION FairSpec
PROPERTY ThreadsWaitAgain
